------------------------------ MODULE Spec2Model ------------------------------
(***************************************************************************)
(* Model of the smart disassembler of the ZX81 debugger: the Z80           *)
(* instruction decoder (opcode.ts), the attributed 64K memory (memory.ts)  *)
(* and the flow-graph build of SmartDisassembler.getFlowGraph              *)
(* (smartdisassembler.ts): pass 1 (createNodes), pass 1b                   *)
(* (createNodesForLabels), pass 2 (fillNodes), markSubroutines,            *)
(* partitionBlocks, assignNodeLabels and assignOpcodeReferenceLabels.      *)
(*                                                                         *)
(* Strings are TLA+ strings (Len, SubSeq and \o act on them), so mnemonic  *)
(* parsing and label formatting are computed, not assumed.                 *)
(***************************************************************************)
EXTENDS Integers, Sequences, FiniteSets, TLC

(***************************************************************************)
(* JavaScript string and number helpers used by the sources.               *)
(***************************************************************************)
\* String.prototype.substring(a, b): the characters a..b-1 (0-based).
substring(s, a, b) == SubSeq(s, a + 1, IF b > Len(s) THEN Len(s) ELSE b)

\* String.prototype.substring(a): the rest of the string from index a.
substringFrom(s, a) == SubSeq(s, a + 1, Len(s))

\* String.prototype.startsWith.
startsWith(s, t) == Len(t) <= Len(s) /\ SubSeq(s, 1, Len(t)) = t

RECURSIVE indexOfFrom(_, _, _)
indexOfFrom(s, t, k) ==
  IF k + Len(t) > Len(s) THEN -1
  ELSE IF SubSeq(s, k + 1, k + Len(t)) = t THEN k
  ELSE indexOfFrom(s, t, k + 1)

\* String.prototype.indexOf: 0-based index of the first occurrence, or -1.
indexOf(s, t) == indexOfFrom(s, t, 0)

RECURSIVE trimLeft(_)
trimLeft(s) == IF Len(s) > 0 /\ SubSeq(s, 1, 1) = " " THEN trimLeft(SubSeq(s, 2, Len(s))) ELSE s

RECURSIVE trimRight(_)
trimRight(s) ==
  IF Len(s) > 0 /\ SubSeq(s, Len(s), Len(s)) = " " THEN trimRight(SubSeq(s, 1, Len(s) - 1)) ELSE s

\* String.prototype.trim.
trim(s) == trimRight(trimLeft(s))

\* String.prototype.replace(from, to) with a string pattern: the first occurrence only.
replaceFirst(s, from, to) ==
  LET k == indexOf(s, from)
  IN IF k < 0 THEN s ELSE substring(s, 0, k) \o to \o substringFrom(s, k + Len(from))

RECURSIVE replaceAll(_, _, _)
\* String.prototype.replace(/from/g, to): every occurrence.
replaceAll(s, from, to) ==
  LET k == indexOf(s, from)
  IN IF k < 0 THEN s
     ELSE substring(s, 0, k) \o to \o replaceAll(substringFrom(s, k + Len(from)), from, to)

RECURSIVE BitAnd(_, _)
\* The & operator on non-negative integers.
BitAnd(a, b) ==
  IF a = 0 \/ b = 0 THEN 0
  ELSE 2 * BitAnd(a \div 2, b \div 2) + (IF a % 2 = 1 /\ b % 2 = 1 THEN 1 ELSE 0)

\* The size of the address space (basememory.ts, imported by memory.ts).
MAX_MEM_SIZE == 65536

\* x & 0xFFFF for a JavaScript number: 32-bit two's complement, low 16 bits.
Mask64k(x) == x % MAX_MEM_SIZE

HexDigits == "0123456789ABCDEF"

RECURSIVE getHexString(_, _)
\* Utility.getHexString(value, size): upper-case hex, left-padded with zeros to
\* size digits ("8AF2" for 0x8AF2, as documented at funcFormatAddress).
getHexString(value, size) ==
  IF size <= 0 /\ value = 0 THEN ""
  ELSE getHexString(value \div 16, size - 1) \o SubSeq(HexDigits, (value % 16) + 1, (value % 16) + 1)

(***************************************************************************)
(* opcode.ts: OpcodeFlag, NumberType and the Opcode constructors.          *)
(***************************************************************************)
\* A freshly constructed Opcode (or subclass) object.  "opcodes" names the
\* sub-table of an OpcodeExtended, "cls" the class whose getOpcodeAt applies.
NewOpcode(cls, code, name, flags, valueType, length, value) ==
  [cls |-> cls, code |-> code, name |-> name, flags |-> flags,
   valueType |-> valueType, length |-> length, value |-> value, opcodes |-> ""]

\* The flags of a branch mnemonic: CONDITIONAL when it has a comma, else other.
branchFlags(name, always, other) ==
  always \cup (IF indexOf(name, ",") >= 0 THEN {"CONDITIONAL"} ELSE other)

\* Word operand ('#nn' already replaced by '%s' in name, at index k): length 3,
\* value type and flags from the mnemonic.
OpcodeWord(code, name, k) ==
  IF substring(name, k - 1, k) = "(" THEN NewOpcode("Opcode", code, name, {}, "DATA_LBL", 3, 0)
  ELSE IF startsWith(name, "CALL")
    THEN NewOpcode("Opcode", code, name, branchFlags(name, {"CALL", "BRANCH_ADDRESS"}, {}),
                   "CODE_SUB", 3, 0)
  ELSE IF startsWith(name, "JP")
    THEN NewOpcode("Opcode", code, name, branchFlags(name, {"BRANCH_ADDRESS"}, {"STOP"}),
                   "CODE_LBL", 3, 0)
  ELSE IF startsWith(name, "LD SP,")
    THEN NewOpcode("Opcode", code, name, {}, "DATA_LBL", 3, 0)
  ELSE NewOpcode("Opcode", code, name, {}, "NUMBER_WORD", 3, 0)

\* Byte operand ('#n' already replaced by '%s' in name): length 2.
OpcodeByte(code, name) ==
  IF startsWith(name, "DJNZ")
    THEN NewOpcode("Opcode", code, name, {"BRANCH_ADDRESS", "CONDITIONAL"}, "CODE_LOCAL_LBL", 2, 0)
  ELSE IF startsWith(name, "JR")
    THEN NewOpcode("Opcode", code, name, branchFlags(name, {"BRANCH_ADDRESS"}, {"STOP"}),
                   "CODE_LOCAL_LBL", 2, 0)
  ELSE IF startsWith(name, "IN") \/ startsWith(name, "OUT")
    THEN NewOpcode("Opcode", code, name, {}, "PORT_LBL", 2, 0)
  ELSE NewOpcode("Opcode", code, name, {}, "NUMBER_BYTE", 2, 0)

\* OpcodePlain with the RST target taken from bits 4-5 only.
OpcodePlainNarrowMask(code, name) ==
  IF startsWith(name, "RET")
    THEN NewOpcode("Opcode", code, name,
                   {"RET"} \cup (IF indexOf(name, " ") >= 0 THEN {"CONDITIONAL"} ELSE {"STOP"}),
                   "NONE", 1, 0)
  ELSE IF startsWith(name, "RST")
    THEN NewOpcode("Opcode", code, name, {"BRANCH_ADDRESS", "CALL"}, "CODE_RST", 1,
                   BitAnd(code, 48))
  ELSE IF startsWith(name, "JP")
    THEN NewOpcode("Opcode", code, name, {"STOP"}, "NONE", 1, 0)
  ELSE NewOpcode("Opcode", code, name, {}, "NONE", 1, 0)

\* Opcode.constructor for a mnemonic without operand.
OpcodePlain(code, name) ==
  IF startsWith(name, "RET")
    THEN NewOpcode("Opcode", code, name,
                   {"RET"} \cup (IF indexOf(name, " ") >= 0 THEN {"CONDITIONAL"} ELSE {"STOP"}),
                   "NONE", 1, 0)
  ELSE IF startsWith(name, "RST")
    THEN NewOpcode("Opcode", code, name, {"BRANCH_ADDRESS", "CALL"}, "CODE_RST", 1,
                   BitAnd(code, 56))
  ELSE IF startsWith(name, "JP")
    THEN NewOpcode("Opcode", code, name, {"STOP"}, "NONE", 1, 0)
  ELSE NewOpcode("Opcode", code, name, {}, "NONE", 1, 0)

\* Opcode.constructor(code, name) for the trimmed name, k = name.indexOf('#n').
OpcodeParsed(code, name, k) ==
  IF k > 0
    THEN IF substring(name, k + 2, k + 3) = "n"
           THEN OpcodeWord(code, substring(name, 0, k) \o "%s" \o substringFrom(name, k + 3), k)
           ELSE OpcodeByte(code, substring(name, 0, k) \o "%s" \o substringFrom(name, k + 2))
    ELSE OpcodePlain(code, name)

\* name.trim() and its indexOf('#n').
OpcodeTrimmed(code, name) == OpcodeParsed(code, name, indexOf(name, "#n"))

\* Opcode.constructor(code, name).
OpcodeCtor(code, name) == OpcodeTrimmed(code, trim(name))

\* OpcodeIndex.constructor, after super(code, name): relative index, one byte longer.
OpcodeIndexCtor(super) ==
  [super EXCEPT !.cls = "OpcodeIndex", !.valueType = "RELATIVE_INDEX", !.length = @ + 1]

\* OpcodePrevIndex.constructor: an OpcodeIndex, one more byte; own getOpcodeAt.
OpcodePrevIndexCtor(super) ==
  [OpcodeIndexCtor(super) EXCEPT !.cls = "OpcodePrevIndex", !.length = @ + 1]

\* OpcodeIndexImmediate.constructor: length 3, relative index; own getOpcodeAt.
OpcodeIndexImmediateCtor(super) ==
  [super EXCEPT !.cls = "OpcodeIndexImmediate", !.length = 3, !.valueType = "RELATIVE_INDEX"]

\* OpcodeExtended.constructor(code, opcodes), after super(code, ''): one byte longer.
OpcodeExtendedCtor(super, opcodes) ==
  [super EXCEPT !.cls = "OpcodeExtended", !.opcodes = opcodes, !.length = @ + 1]

\* OpcodeExtended2.constructor(code, opcodes): an OpcodeExtended, one more byte.
OpcodeExtended2Ctor(super, opcodes) ==
  [OpcodeExtendedCtor(super, opcodes) EXCEPT !.cls = "OpcodeExtended2", !.length = @ + 1]

\* OpcodeNOP.constructor(code), after super(code, ''): a prefix followed by a prefix.
OpcodeNOPCtor(super) ==
  [super EXCEPT !.cls = "OpcodeNOP",
                !.name = "[NOP]\t; because of following 0x" \o getHexString(super.code, 2),
                !.length = @ - 1]

\* OpcodeInvalid.constructor(code), after super(code, '').
OpcodeInvalidCtor(super) ==
  [super EXCEPT !.cls = "OpcodeInvalid",
                !.name = "INVALID INSTRUCTION\t; mostly equivalent to NOP."]

\* The subclass part of new <class>(code, arg), applied to what super(...) built.
Subclass(class, arg, super) ==
  CASE class = "Opcode" -> super
    [] class = "OpcodeIndex" -> OpcodeIndexCtor(super)
    [] class = "OpcodePrevIndex" -> OpcodePrevIndexCtor(super)
    [] class = "OpcodeIndexImmediate" -> OpcodeIndexImmediateCtor(super)
    [] class = "OpcodeExtended" -> OpcodeExtendedCtor(super, arg)
    [] class = "OpcodeExtended2" -> OpcodeExtended2Ctor(super, arg)
    [] class = "OpcodeNOP" -> OpcodeNOPCtor(super)
    [] class = "OpcodeInvalid" -> OpcodeInvalidCtor(super)

\* new <class>(code, arg) for one row <<class, code, arg>> of a table literal of
\* InitOpcodes; the classes without mnemonic call super(code, '').
Construct(row) ==
  Subclass(row[1], row[3],
           OpcodeCtor(row[2], IF row[1] \in {"OpcodeExtended", "OpcodeExtended2", "OpcodeNOP",
                                            "OpcodeInvalid"} THEN "" ELSE row[3]))

\* opcode.length++ ("Fix length") for one entry of a prefixed table.
FixLength(opcode) == [opcode EXCEPT !.length = @ + 1]
\* OpcodesED: the entries of the table, in table order, as <<class, code, mnemonic>>
OpcodesEDTable ==
  << <<"OpcodeInvalid", 0, "">>, <<"OpcodeInvalid", 1, "">>, <<"OpcodeInvalid", 2, "">>,
     <<"OpcodeInvalid", 3, "">>, <<"OpcodeInvalid", 4, "">>, <<"OpcodeInvalid", 5, "">>,
     <<"OpcodeInvalid", 6, "">>, <<"OpcodeInvalid", 7, "">>, <<"OpcodeInvalid", 8, "">>,
     <<"OpcodeInvalid", 9, "">>, <<"OpcodeInvalid", 10, "">>, <<"OpcodeInvalid", 11, "">>,
     <<"OpcodeInvalid", 12, "">>, <<"OpcodeInvalid", 13, "">>, <<"OpcodeInvalid", 14, "">>,
     <<"OpcodeInvalid", 15, "">>, <<"OpcodeInvalid", 16, "">>, <<"OpcodeInvalid", 17, "">>,
     <<"OpcodeInvalid", 18, "">>, <<"OpcodeInvalid", 19, "">>, <<"OpcodeInvalid", 20, "">>,
     <<"OpcodeInvalid", 21, "">>, <<"OpcodeInvalid", 22, "">>, <<"OpcodeInvalid", 23, "">>,
     <<"OpcodeInvalid", 24, "">>, <<"OpcodeInvalid", 25, "">>, <<"OpcodeInvalid", 26, "">>,
     <<"OpcodeInvalid", 27, "">>, <<"OpcodeInvalid", 28, "">>, <<"OpcodeInvalid", 29, "">>,
     <<"OpcodeInvalid", 30, "">>, <<"OpcodeInvalid", 31, "">>, <<"OpcodeInvalid", 32, "">>,
     <<"OpcodeInvalid", 33, "">>, <<"OpcodeInvalid", 34, "">>, <<"OpcodeInvalid", 35, "">>,
     <<"OpcodeInvalid", 36, "">>, <<"OpcodeInvalid", 37, "">>, <<"OpcodeInvalid", 38, "">>,
     <<"OpcodeInvalid", 39, "">>, <<"OpcodeInvalid", 40, "">>, <<"OpcodeInvalid", 41, "">>,
     <<"OpcodeInvalid", 42, "">>, <<"OpcodeInvalid", 43, "">>, <<"OpcodeInvalid", 44, "">>,
     <<"OpcodeInvalid", 45, "">>, <<"OpcodeInvalid", 46, "">>, <<"OpcodeInvalid", 47, "">>,
     <<"OpcodeInvalid", 48, "">>, <<"OpcodeInvalid", 49, "">>, <<"OpcodeInvalid", 50, "">>,
     <<"OpcodeInvalid", 51, "">>, <<"OpcodeInvalid", 52, "">>, <<"OpcodeInvalid", 53, "">>,
     <<"OpcodeInvalid", 54, "">>, <<"OpcodeInvalid", 55, "">>, <<"OpcodeInvalid", 56, "">>,
     <<"OpcodeInvalid", 57, "">>, <<"OpcodeInvalid", 58, "">>, <<"OpcodeInvalid", 59, "">>,
     <<"OpcodeInvalid", 60, "">>, <<"OpcodeInvalid", 61, "">>, <<"OpcodeInvalid", 62, "">>,
     <<"OpcodeInvalid", 63, "">>, <<"Opcode", 64, "IN B,(C)">>, <<"Opcode", 65, "OUT (C),B">>,
     <<"Opcode", 66, "SBC HL,BC">>, <<"Opcode", 67, "LD (#nn),BC">>, <<"Opcode", 68, "NEG">>,
     <<"Opcode", 69, "RETN">>, <<"Opcode", 70, "IM 0">>, <<"Opcode", 71, "LD I,A">>,
     <<"Opcode", 72, "IN C,(C)">>, <<"Opcode", 73, "OUT (C),C">>, <<"Opcode", 74, "ADC HL,BC">>,
     <<"Opcode", 75, "LD BC,(#nn)">>, <<"Opcode", 76, "[neg]">>, <<"Opcode", 77, "RETI">>,
     <<"Opcode", 78, "[im0]">>, <<"Opcode", 79, "LD R,A">>, <<"Opcode", 80, "IN D,(C)">>,
     <<"Opcode", 81, "OUT (C),D">>, <<"Opcode", 82, "SBC HL,DE">>, <<"Opcode", 83, "LD (#nn),DE">>,
     <<"Opcode", 84, "[neg]">>, <<"Opcode", 85, "[retn]">>, <<"Opcode", 86, "IM 1">>,
     <<"Opcode", 87, "LD A,I">>, <<"Opcode", 88, "IN E,(C)">>, <<"Opcode", 89, "OUT (C),E">>,
     <<"Opcode", 90, "ADC HL,DE">>, <<"Opcode", 91, "LD DE,(#nn)">>, <<"Opcode", 92, "[neg]">>,
     <<"Opcode", 93, "[reti]">>, <<"Opcode", 94, "IM 2">>, <<"Opcode", 95, "LD A,R">>,
     <<"Opcode", 96, "IN H,(C)">>, <<"Opcode", 97, "OUT (C),H">>, <<"Opcode", 98, "SBC HL,HL">>,
     <<"Opcode", 99, "LD (#nn),HL">>, <<"Opcode", 100, "[neg]">>, <<"Opcode", 101, "[retn]">>,
     <<"Opcode", 102, "[im0]">>, <<"Opcode", 103, "RRD">>, <<"Opcode", 104, "IN L,(C)">>,
     <<"Opcode", 105, "OUT (C),L">>, <<"Opcode", 106, "ADC HL,HL">>, <<"Opcode", 107, "LD HL,(#nn)">>,
     <<"Opcode", 108, "[neg]">>, <<"Opcode", 109, "[reti]">>, <<"Opcode", 110, "[im0]">>,
     <<"Opcode", 111, "RLD">>, <<"Opcode", 112, "IN F,(C)">>, <<"Opcode", 113, "OUT (C),0">>,
     <<"Opcode", 114, "SBC HL,SP">>, <<"Opcode", 115, "LD (#nn),SP">>, <<"Opcode", 116, "[neg]">>,
     <<"Opcode", 117, "[retn]">>, <<"Opcode", 118, "[im1]">>, <<"Opcode", 119, "[ld i,i?]">>,
     <<"Opcode", 120, "IN A,(C)">>, <<"Opcode", 121, "OUT (C),A">>, <<"Opcode", 122, "ADC HL,SP">>,
     <<"Opcode", 123, "LD SP,(#nn)">>, <<"Opcode", 124, "[neg]">>, <<"Opcode", 125, "[reti]">>,
     <<"Opcode", 126, "[im2]">>, <<"Opcode", 127, "[ld r,r?]">>, <<"OpcodeInvalid", 128, "">>,
     <<"OpcodeInvalid", 129, "">>, <<"OpcodeInvalid", 130, "">>, <<"OpcodeInvalid", 131, "">>,
     <<"OpcodeInvalid", 132, "">>, <<"OpcodeInvalid", 133, "">>, <<"OpcodeInvalid", 134, "">>,
     <<"OpcodeInvalid", 135, "">>, <<"OpcodeInvalid", 136, "">>, <<"OpcodeInvalid", 137, "">>,
     <<"OpcodeInvalid", 138, "">>, <<"OpcodeInvalid", 139, "">>, <<"OpcodeInvalid", 140, "">>,
     <<"OpcodeInvalid", 141, "">>, <<"OpcodeInvalid", 142, "">>, <<"OpcodeInvalid", 143, "">>,
     <<"OpcodeInvalid", 144, "">>, <<"OpcodeInvalid", 145, "">>, <<"OpcodeInvalid", 146, "">>,
     <<"OpcodeInvalid", 147, "">>, <<"OpcodeInvalid", 148, "">>, <<"OpcodeInvalid", 149, "">>,
     <<"OpcodeInvalid", 150, "">>, <<"OpcodeInvalid", 151, "">>, <<"OpcodeInvalid", 152, "">>,
     <<"OpcodeInvalid", 153, "">>, <<"OpcodeInvalid", 154, "">>, <<"OpcodeInvalid", 155, "">>,
     <<"OpcodeInvalid", 156, "">>, <<"OpcodeInvalid", 157, "">>, <<"OpcodeInvalid", 158, "">>,
     <<"OpcodeInvalid", 159, "">>, <<"Opcode", 160, "LDI">>, <<"Opcode", 161, "CPI">>,
     <<"Opcode", 162, "INI">>, <<"Opcode", 163, "OUTI">>, <<"OpcodeInvalid", 164, "">>,
     <<"OpcodeInvalid", 165, "">>, <<"OpcodeInvalid", 166, "">>, <<"OpcodeInvalid", 167, "">>,
     <<"Opcode", 168, "LDD">>, <<"Opcode", 169, "CPD">>, <<"Opcode", 170, "IND">>,
     <<"Opcode", 171, "OUTD">>, <<"OpcodeInvalid", 172, "">>, <<"OpcodeInvalid", 173, "">>,
     <<"OpcodeInvalid", 174, "">>, <<"OpcodeInvalid", 175, "">>, <<"Opcode", 176, "LDIR">>,
     <<"Opcode", 177, "CPIR">>, <<"Opcode", 178, "INIR">>, <<"Opcode", 179, "OUTIR">>,
     <<"OpcodeInvalid", 180, "">>, <<"OpcodeInvalid", 181, "">>, <<"OpcodeInvalid", 182, "">>,
     <<"OpcodeInvalid", 183, "">>, <<"Opcode", 184, "LDDR">>, <<"Opcode", 185, "CPDR">>,
     <<"Opcode", 186, "INDR">>, <<"Opcode", 187, "OUTDR">>, <<"OpcodeInvalid", 188, "">>,
     <<"OpcodeInvalid", 189, "">>, <<"OpcodeInvalid", 190, "">>, <<"OpcodeInvalid", 191, "">>,
     <<"OpcodeInvalid", 192, "">>, <<"OpcodeInvalid", 193, "">>, <<"OpcodeInvalid", 194, "">>,
     <<"OpcodeInvalid", 195, "">>, <<"OpcodeInvalid", 196, "">>, <<"OpcodeInvalid", 197, "">>,
     <<"OpcodeInvalid", 198, "">>, <<"OpcodeInvalid", 199, "">>, <<"OpcodeInvalid", 200, "">>,
     <<"OpcodeInvalid", 201, "">>, <<"OpcodeInvalid", 202, "">>, <<"OpcodeInvalid", 203, "">>,
     <<"OpcodeInvalid", 204, "">>, <<"OpcodeInvalid", 205, "">>, <<"OpcodeInvalid", 206, "">>,
     <<"OpcodeInvalid", 207, "">>, <<"OpcodeInvalid", 208, "">>, <<"OpcodeInvalid", 209, "">>,
     <<"OpcodeInvalid", 210, "">>, <<"OpcodeInvalid", 211, "">>, <<"OpcodeInvalid", 212, "">>,
     <<"OpcodeInvalid", 213, "">>, <<"OpcodeInvalid", 214, "">>, <<"OpcodeInvalid", 215, "">>,
     <<"OpcodeInvalid", 216, "">>, <<"OpcodeInvalid", 217, "">>, <<"OpcodeInvalid", 218, "">>,
     <<"OpcodeInvalid", 219, "">>, <<"OpcodeInvalid", 220, "">>, <<"OpcodeInvalid", 221, "">>,
     <<"OpcodeInvalid", 222, "">>, <<"OpcodeInvalid", 223, "">>, <<"OpcodeInvalid", 224, "">>,
     <<"OpcodeInvalid", 225, "">>, <<"OpcodeInvalid", 226, "">>, <<"OpcodeInvalid", 227, "">>,
     <<"OpcodeInvalid", 228, "">>, <<"OpcodeInvalid", 229, "">>, <<"OpcodeInvalid", 230, "">>,
     <<"OpcodeInvalid", 231, "">>, <<"OpcodeInvalid", 232, "">>, <<"OpcodeInvalid", 233, "">>,
     <<"OpcodeInvalid", 234, "">>, <<"OpcodeInvalid", 235, "">>, <<"OpcodeInvalid", 236, "">>,
     <<"OpcodeInvalid", 237, "">>, <<"OpcodeInvalid", 238, "">>, <<"OpcodeInvalid", 239, "">>,
     <<"OpcodeInvalid", 240, "">>, <<"OpcodeInvalid", 241, "">>, <<"OpcodeInvalid", 242, "">>,
     <<"OpcodeInvalid", 243, "">>, <<"OpcodeInvalid", 244, "">>, <<"OpcodeInvalid", 245, "">>,
     <<"OpcodeInvalid", 246, "">>, <<"OpcodeInvalid", 247, "">>, <<"OpcodeInvalid", 248, "">>,
     <<"OpcodeInvalid", 249, "">>, <<"OpcodeInvalid", 250, "">>, <<"OpcodeInvalid", 251, "">>,
     <<"OpcodeInvalid", 252, "">>, <<"OpcodeInvalid", 253, "">>, <<"OpcodeInvalid", 254, "">>,
     <<"OpcodeInvalid", 255, "">> >>

\* OpcodesCB: the entries of the table, in table order, as <<class, code, mnemonic>>
OpcodesCBTable ==
  << <<"Opcode", 0, "RLC B">>, <<"Opcode", 1, "RLC C">>, <<"Opcode", 2, "RLC D">>,
     <<"Opcode", 3, "RLC E">>, <<"Opcode", 4, "RLC H">>, <<"Opcode", 5, "RLC L">>,
     <<"Opcode", 6, "RLC (HL)">>, <<"Opcode", 7, "RLC A">>, <<"Opcode", 8, "RRC B">>,
     <<"Opcode", 9, "RRC C">>, <<"Opcode", 10, "RRC D">>, <<"Opcode", 11, "RRC E">>,
     <<"Opcode", 12, "RRC H">>, <<"Opcode", 13, "RRC L">>, <<"Opcode", 14, "RRC (HL)">>,
     <<"Opcode", 15, "RRC A">>, <<"Opcode", 16, "RL B">>, <<"Opcode", 17, "RL C">>,
     <<"Opcode", 18, "RL D">>, <<"Opcode", 19, "RL E">>, <<"Opcode", 20, "RL H">>,
     <<"Opcode", 21, "RL L">>, <<"Opcode", 22, "RL (HL)">>, <<"Opcode", 23, "RL A">>,
     <<"Opcode", 24, "RR B">>, <<"Opcode", 25, "RR C">>, <<"Opcode", 26, "RR D">>,
     <<"Opcode", 27, "RR E">>, <<"Opcode", 28, "RR H">>, <<"Opcode", 29, "RR L">>,
     <<"Opcode", 30, "RR (HL)">>, <<"Opcode", 31, "RR A">>, <<"Opcode", 32, "SLA B">>,
     <<"Opcode", 33, "SLA C">>, <<"Opcode", 34, "SLA D">>, <<"Opcode", 35, "SLA E">>,
     <<"Opcode", 36, "SLA H">>, <<"Opcode", 37, "SLA L">>, <<"Opcode", 38, "SLA (HL)">>,
     <<"Opcode", 39, "SLA A">>, <<"Opcode", 40, "SRA B">>, <<"Opcode", 41, "SRA C">>,
     <<"Opcode", 42, "SRA D">>, <<"Opcode", 43, "SRA E">>, <<"Opcode", 44, "SRA H">>,
     <<"Opcode", 45, "SRA L">>, <<"Opcode", 46, "SRA (HL)">>, <<"Opcode", 47, "SRA A">>,
     <<"Opcode", 48, "SLL B">>, <<"Opcode", 49, "SLL C">>, <<"Opcode", 50, "SLL D">>,
     <<"Opcode", 51, "SLL E">>, <<"Opcode", 52, "SLL H">>, <<"Opcode", 53, "SLL L">>,
     <<"Opcode", 54, "SLL (HL)">>, <<"Opcode", 55, "SLL A">>, <<"Opcode", 56, "SRL B">>,
     <<"Opcode", 57, "SRL C">>, <<"Opcode", 58, "SRL D">>, <<"Opcode", 59, "SRL E">>,
     <<"Opcode", 60, "SRL H">>, <<"Opcode", 61, "SRL L">>, <<"Opcode", 62, "SRL (HL)">>,
     <<"Opcode", 63, "SRL A">>, <<"Opcode", 64, "BIT 0,B">>, <<"Opcode", 65, "BIT 0,C">>,
     <<"Opcode", 66, "BIT 0,D">>, <<"Opcode", 67, "BIT 0,E">>, <<"Opcode", 68, "BIT 0,H">>,
     <<"Opcode", 69, "BIT 0,L">>, <<"Opcode", 70, "BIT 0,(HL)">>, <<"Opcode", 71, "BIT 0,A">>,
     <<"Opcode", 72, "BIT 1,B">>, <<"Opcode", 73, "BIT 1,C">>, <<"Opcode", 74, "BIT 1,D">>,
     <<"Opcode", 75, "BIT 1,E">>, <<"Opcode", 76, "BIT 1,H">>, <<"Opcode", 77, "BIT 1,L">>,
     <<"Opcode", 78, "BIT 1,(HL)">>, <<"Opcode", 79, "BIT 1,A">>, <<"Opcode", 80, "BIT 2,B">>,
     <<"Opcode", 81, "BIT 2,C">>, <<"Opcode", 82, "BIT 2,D">>, <<"Opcode", 83, "BIT 2,E">>,
     <<"Opcode", 84, "BIT 2,H">>, <<"Opcode", 85, "BIT 2,L">>, <<"Opcode", 86, "BIT 2,(HL)">>,
     <<"Opcode", 87, "BIT 2,A">>, <<"Opcode", 88, "BIT 3,B">>, <<"Opcode", 89, "BIT 3,C">>,
     <<"Opcode", 90, "BIT 3,D">>, <<"Opcode", 91, "BIT 3,E">>, <<"Opcode", 92, "BIT 3,H">>,
     <<"Opcode", 93, "BIT 3,L">>, <<"Opcode", 94, "BIT 3,(HL)">>, <<"Opcode", 95, "BIT 3,A">>,
     <<"Opcode", 96, "BIT 4,B">>, <<"Opcode", 97, "BIT 4,C">>, <<"Opcode", 98, "BIT 4,D">>,
     <<"Opcode", 99, "BIT 4,E">>, <<"Opcode", 100, "BIT 4,H">>, <<"Opcode", 101, "BIT 4,L">>,
     <<"Opcode", 102, "BIT 4,(HL)">>, <<"Opcode", 103, "BIT 4,A">>, <<"Opcode", 104, "BIT 5,B">>,
     <<"Opcode", 105, "BIT 5,C">>, <<"Opcode", 106, "BIT 5,D">>, <<"Opcode", 107, "BIT 5,E">>,
     <<"Opcode", 108, "BIT 5,H">>, <<"Opcode", 109, "BIT 5,L">>, <<"Opcode", 110, "BIT 5,(HL)">>,
     <<"Opcode", 111, "BIT 5,A">>, <<"Opcode", 112, "BIT 6,B">>, <<"Opcode", 113, "BIT 6,C">>,
     <<"Opcode", 114, "BIT 6,D">>, <<"Opcode", 115, "BIT 6,E">>, <<"Opcode", 116, "BIT 6,H">>,
     <<"Opcode", 117, "BIT 6,L">>, <<"Opcode", 118, "BIT 6,(HL)">>, <<"Opcode", 119, "BIT 6,A">>,
     <<"Opcode", 120, "BIT 7,B">>, <<"Opcode", 121, "BIT 7,C">>, <<"Opcode", 122, "BIT 7,D">>,
     <<"Opcode", 123, "BIT 7,E">>, <<"Opcode", 124, "BIT 7,H">>, <<"Opcode", 125, "BIT 7,L">>,
     <<"Opcode", 126, "BIT 7,(HL)">>, <<"Opcode", 127, "BIT 7,A">>, <<"Opcode", 128, "RES 0,B">>,
     <<"Opcode", 129, "RES 0,C">>, <<"Opcode", 130, "RES 0,D">>, <<"Opcode", 131, "RES 0,E">>,
     <<"Opcode", 132, "RES 0,H">>, <<"Opcode", 133, "RES 0,L">>, <<"Opcode", 134, "RES 0,(HL)">>,
     <<"Opcode", 135, "RES 0,A">>, <<"Opcode", 136, "RES 1,B">>, <<"Opcode", 137, "RES 1,C">>,
     <<"Opcode", 138, "RES 1,D">>, <<"Opcode", 139, "RES 1,E">>, <<"Opcode", 140, "RES 1,H">>,
     <<"Opcode", 141, "RES 1,L">>, <<"Opcode", 142, "RES 1,(HL)">>, <<"Opcode", 143, "RES 1,A">>,
     <<"Opcode", 144, "RES 2,B">>, <<"Opcode", 145, "RES 2,C">>, <<"Opcode", 146, "RES 2,D">>,
     <<"Opcode", 147, "RES 2,E">>, <<"Opcode", 148, "RES 2,H">>, <<"Opcode", 149, "RES 2,L">>,
     <<"Opcode", 150, "RES 2,(HL)">>, <<"Opcode", 151, "RES 2,A">>, <<"Opcode", 152, "RES 3,B">>,
     <<"Opcode", 153, "RES 3,C">>, <<"Opcode", 154, "RES 3,D">>, <<"Opcode", 155, "RES 3,E">>,
     <<"Opcode", 156, "RES 3,H">>, <<"Opcode", 157, "RES 3,L">>, <<"Opcode", 158, "RES 3,(HL)">>,
     <<"Opcode", 159, "RES 3,A">>, <<"Opcode", 160, "RES 4,B">>, <<"Opcode", 161, "RES 4,C">>,
     <<"Opcode", 162, "RES 4,D">>, <<"Opcode", 163, "RES 4,E">>, <<"Opcode", 164, "RES 4,H">>,
     <<"Opcode", 165, "RES 4,L">>, <<"Opcode", 166, "RES 4,(HL)">>, <<"Opcode", 167, "RES 4,A">>,
     <<"Opcode", 168, "RES 5,B">>, <<"Opcode", 169, "RES 5,C">>, <<"Opcode", 170, "RES 5,D">>,
     <<"Opcode", 171, "RES 5,E">>, <<"Opcode", 172, "RES 5,H">>, <<"Opcode", 173, "RES 5,L">>,
     <<"Opcode", 174, "RES 5,(HL)">>, <<"Opcode", 175, "RES 5,A">>, <<"Opcode", 176, "RES 6,B">>,
     <<"Opcode", 177, "RES 6,C">>, <<"Opcode", 178, "RES 6,D">>, <<"Opcode", 179, "RES 6,E">>,
     <<"Opcode", 180, "RES 6,H">>, <<"Opcode", 181, "RES 6,L">>, <<"Opcode", 182, "RES 6,(HL)">>,
     <<"Opcode", 183, "RES 6,A">>, <<"Opcode", 184, "RES 7,B">>, <<"Opcode", 185, "RES 7,C">>,
     <<"Opcode", 186, "RES 7,D">>, <<"Opcode", 187, "RES 7,E">>, <<"Opcode", 188, "RES 7,H">>,
     <<"Opcode", 189, "RES 7,L">>, <<"Opcode", 190, "RES 7,(HL)">>, <<"Opcode", 191, "RES 7,A">>,
     <<"Opcode", 192, "SET 0,B">>, <<"Opcode", 193, "SET 0,C">>, <<"Opcode", 194, "SET 0,D">>,
     <<"Opcode", 195, "SET 0,E">>, <<"Opcode", 196, "SET 0,H">>, <<"Opcode", 197, "SET 0,L">>,
     <<"Opcode", 198, "SET 0,(HL)">>, <<"Opcode", 199, "SET 0,A">>, <<"Opcode", 200, "SET 1,B">>,
     <<"Opcode", 201, "SET 1,C">>, <<"Opcode", 202, "SET 1,D">>, <<"Opcode", 203, "SET 1,E">>,
     <<"Opcode", 204, "SET 1,H">>, <<"Opcode", 205, "SET 1,L">>, <<"Opcode", 206, "SET 1,(HL)">>,
     <<"Opcode", 207, "SET 1,A">>, <<"Opcode", 208, "SET 2,B">>, <<"Opcode", 209, "SET 2,C">>,
     <<"Opcode", 210, "SET 2,D">>, <<"Opcode", 211, "SET 2,E">>, <<"Opcode", 212, "SET 2,H">>,
     <<"Opcode", 213, "SET 2,L">>, <<"Opcode", 214, "SET 2,(HL)">>, <<"Opcode", 215, "SET 2,A">>,
     <<"Opcode", 216, "SET 3,B">>, <<"Opcode", 217, "SET 3,C">>, <<"Opcode", 218, "SET 3,D">>,
     <<"Opcode", 219, "SET 3,E">>, <<"Opcode", 220, "SET 3,H">>, <<"Opcode", 221, "SET 3,L">>,
     <<"Opcode", 222, "SET 3,(HL)">>, <<"Opcode", 223, "SET 3,A">>, <<"Opcode", 224, "SET 4,B">>,
     <<"Opcode", 225, "SET 4,C">>, <<"Opcode", 226, "SET 4,D">>, <<"Opcode", 227, "SET 4,E">>,
     <<"Opcode", 228, "SET 4,H">>, <<"Opcode", 229, "SET 4,L">>, <<"Opcode", 230, "SET 4,(HL)">>,
     <<"Opcode", 231, "SET 4,A">>, <<"Opcode", 232, "SET 5,B">>, <<"Opcode", 233, "SET 5,C">>,
     <<"Opcode", 234, "SET 5,D">>, <<"Opcode", 235, "SET 5,E">>, <<"Opcode", 236, "SET 5,H">>,
     <<"Opcode", 237, "SET 5,L">>, <<"Opcode", 238, "SET 5,(HL)">>, <<"Opcode", 239, "SET 5,A">>,
     <<"Opcode", 240, "SET 6,B">>, <<"Opcode", 241, "SET 6,C">>, <<"Opcode", 242, "SET 6,D">>,
     <<"Opcode", 243, "SET 6,E">>, <<"Opcode", 244, "SET 6,H">>, <<"Opcode", 245, "SET 6,L">>,
     <<"Opcode", 246, "SET 6,(HL)">>, <<"Opcode", 247, "SET 6,A">>, <<"Opcode", 248, "SET 7,B">>,
     <<"Opcode", 249, "SET 7,C">>, <<"Opcode", 250, "SET 7,D">>, <<"Opcode", 251, "SET 7,E">>,
     <<"Opcode", 252, "SET 7,H">>, <<"Opcode", 253, "SET 7,L">>, <<"Opcode", 254, "SET 7,(HL)">>,
     <<"Opcode", 255, "SET 7,A">> >>

\* OpcodesDDCB: the entries of the table, in table order, as <<class, code, mnemonic>>
OpcodesDDCBTable ==
  << <<"OpcodePrevIndex", 0, "RLC (IX%s),B">>, <<"OpcodePrevIndex", 1, "RLC (IX%s),C">>,
     <<"OpcodePrevIndex", 2, "RLC (IX%s),D">>, <<"OpcodePrevIndex", 3, "RLC (IX%s),E">>,
     <<"OpcodePrevIndex", 4, "RLC (IX%s),H">>, <<"OpcodePrevIndex", 5, "RLC (IX%s),L">>,
     <<"OpcodePrevIndex", 6, "RLC (IX%s)">>, <<"OpcodePrevIndex", 7, "RLC (IX%s),A">>,
     <<"OpcodePrevIndex", 8, "RRC (IX%s),B">>, <<"OpcodePrevIndex", 9, "RRC (IX%s),C">>,
     <<"OpcodePrevIndex", 10, "RRC (IX%s),D">>, <<"OpcodePrevIndex", 11, "RRC (IX%s),E">>,
     <<"OpcodePrevIndex", 12, "RRC (IX%s),H">>, <<"OpcodePrevIndex", 13, "RRC (IX%s),L">>,
     <<"OpcodePrevIndex", 14, "RRC (IX%s)">>, <<"OpcodePrevIndex", 15, "RRC (IX%s),A">>,
     <<"OpcodePrevIndex", 16, "RL (IX%s),B">>, <<"OpcodePrevIndex", 17, "RL (IX%s),C">>,
     <<"OpcodePrevIndex", 18, "RL (IX%s),D">>, <<"OpcodePrevIndex", 19, "RL (IX%s),E">>,
     <<"OpcodePrevIndex", 20, "RL (IX%s),H">>, <<"OpcodePrevIndex", 21, "RL (IX%s),L">>,
     <<"OpcodePrevIndex", 22, "RL (IX%s)">>, <<"OpcodePrevIndex", 23, "RL (IX%s),A">>,
     <<"OpcodePrevIndex", 24, "RR (IX%s),B">>, <<"OpcodePrevIndex", 25, "RR (IX%s),C">>,
     <<"OpcodePrevIndex", 26, "RR (IX%s),D">>, <<"OpcodePrevIndex", 27, "RR (IX%s),E">>,
     <<"OpcodePrevIndex", 28, "RR (IX%s),H">>, <<"OpcodePrevIndex", 29, "RR (IX%s),L">>,
     <<"OpcodePrevIndex", 30, "RR (IX%s)">>, <<"OpcodePrevIndex", 31, "RR (IX%s),A">>,
     <<"OpcodePrevIndex", 32, "SLA (IX%s),B">>, <<"OpcodePrevIndex", 33, "SLA (IX%s),C">>,
     <<"OpcodePrevIndex", 34, "SLA (IX%s),D">>, <<"OpcodePrevIndex", 35, "SLA (IX%s),E">>,
     <<"OpcodePrevIndex", 36, "SLA (IX%s),H">>, <<"OpcodePrevIndex", 37, "SLA (IX%s),L">>,
     <<"OpcodePrevIndex", 38, "SLA (IX%s)">>, <<"OpcodePrevIndex", 39, "SLA (IX%s),A">>,
     <<"OpcodePrevIndex", 40, "SRA (IX%s),B">>, <<"OpcodePrevIndex", 41, "SRA (IX%s),C">>,
     <<"OpcodePrevIndex", 42, "SRA (IX%s),D">>, <<"OpcodePrevIndex", 43, "SRA (IX%s),E">>,
     <<"OpcodePrevIndex", 44, "SRA (IX%s),H">>, <<"OpcodePrevIndex", 45, "SRA (IX%s),L">>,
     <<"OpcodePrevIndex", 46, "SRA (IX%s)">>, <<"OpcodePrevIndex", 47, "SRA (IX%s),A">>,
     <<"OpcodePrevIndex", 48, "SLL (IX%s),B">>, <<"OpcodePrevIndex", 49, "SLL (IX%s),C">>,
     <<"OpcodePrevIndex", 50, "SLL (IX%s),D">>, <<"OpcodePrevIndex", 51, "SLL (IX%s),E">>,
     <<"OpcodePrevIndex", 52, "SLL (IX%s),H">>, <<"OpcodePrevIndex", 53, "SLL (IX%s),L">>,
     <<"OpcodePrevIndex", 54, "SLL (IX%s)">>, <<"OpcodePrevIndex", 55, "SLL (IX%s),A">>,
     <<"OpcodePrevIndex", 56, "SRL (IX%s),B">>, <<"OpcodePrevIndex", 57, "SRL (IX%s),C">>,
     <<"OpcodePrevIndex", 58, "SRL (IX%s),D">>, <<"OpcodePrevIndex", 59, "SRL (IX%s),E">>,
     <<"OpcodePrevIndex", 60, "SRL (IX%s),H">>, <<"OpcodePrevIndex", 61, "SRL (IX%s),L">>,
     <<"OpcodePrevIndex", 62, "SRL (IX%s)">>, <<"OpcodePrevIndex", 63, "SRL (IX%s),A">>,
     <<"OpcodePrevIndex", 64, "BIT 0,(IX%s)">>, <<"OpcodePrevIndex", 65, "BIT 0,(IX%s)">>,
     <<"OpcodePrevIndex", 66, "BIT 0,(IX%s)">>, <<"OpcodePrevIndex", 67, "BIT 0,(IX%s)">>,
     <<"OpcodePrevIndex", 68, "BIT 0,(IX%s)">>, <<"OpcodePrevIndex", 69, "BIT 0,(IX%s)">>,
     <<"OpcodePrevIndex", 70, "BIT 0,(IX%s)">>, <<"OpcodePrevIndex", 71, "BIT 0,(IX%s)">>,
     <<"OpcodePrevIndex", 72, "BIT 1,(IX%s)">>, <<"OpcodePrevIndex", 73, "BIT 1,(IX%s)">>,
     <<"OpcodePrevIndex", 74, "BIT 1,(IX%s)">>, <<"OpcodePrevIndex", 75, "BIT 1,(IX%s)">>,
     <<"OpcodePrevIndex", 76, "BIT 1,(IX%s)">>, <<"OpcodePrevIndex", 77, "BIT 1,(IX%s)">>,
     <<"OpcodePrevIndex", 78, "BIT 1,(IX%s)">>, <<"OpcodePrevIndex", 79, "BIT 1,(IX%s)">>,
     <<"OpcodePrevIndex", 80, "BIT 2,(IX%s)">>, <<"OpcodePrevIndex", 81, "BIT 2,(IX%s)">>,
     <<"OpcodePrevIndex", 82, "BIT 2,(IX%s)">>, <<"OpcodePrevIndex", 83, "BIT 2,(IX%s)">>,
     <<"OpcodePrevIndex", 84, "BIT 2,(IX%s)">>, <<"OpcodePrevIndex", 85, "BIT 2,(IX%s)">>,
     <<"OpcodePrevIndex", 86, "BIT 2,(IX%s)">>, <<"OpcodePrevIndex", 87, "BIT 2,(IX%s)">>,
     <<"OpcodePrevIndex", 88, "BIT 3,(IX%s)">>, <<"OpcodePrevIndex", 89, "BIT 3,(IX%s)">>,
     <<"OpcodePrevIndex", 90, "BIT 3,(IX%s)">>, <<"OpcodePrevIndex", 91, "BIT 3,(IX%s)">>,
     <<"OpcodePrevIndex", 92, "BIT 3,(IX%s)">>, <<"OpcodePrevIndex", 93, "BIT 3,(IX%s)">>,
     <<"OpcodePrevIndex", 94, "BIT 3,(IX%s)">>, <<"OpcodePrevIndex", 95, "BIT 3,(IX%s)">>,
     <<"OpcodePrevIndex", 96, "BIT 4,(IX%s)">>, <<"OpcodePrevIndex", 97, "BIT 4,(IX%s)">>,
     <<"OpcodePrevIndex", 98, "BIT 4,(IX%s)">>, <<"OpcodePrevIndex", 99, "BIT 4,(IX%s)">>,
     <<"OpcodePrevIndex", 100, "BIT 4,(IX%s)">>, <<"OpcodePrevIndex", 101, "BIT 4,(IX%s)">>,
     <<"OpcodePrevIndex", 102, "BIT 4,(IX%s)">>, <<"OpcodePrevIndex", 103, "BIT 4,(IX%s)">>,
     <<"OpcodePrevIndex", 104, "BIT 5,(IX%s)">>, <<"OpcodePrevIndex", 105, "BIT 5,(IX%s)">>,
     <<"OpcodePrevIndex", 106, "BIT 5,(IX%s)">>, <<"OpcodePrevIndex", 107, "BIT 5,(IX%s)">>,
     <<"OpcodePrevIndex", 108, "BIT 5,(IX%s)">>, <<"OpcodePrevIndex", 109, "BIT 5,(IX%s)">>,
     <<"OpcodePrevIndex", 110, "BIT 5,(IX%s)">>, <<"OpcodePrevIndex", 111, "BIT 5,(IX%s)">>,
     <<"OpcodePrevIndex", 112, "BIT 6,(IX%s)">>, <<"OpcodePrevIndex", 113, "BIT 6,(IX%s)">>,
     <<"OpcodePrevIndex", 114, "BIT 6,(IX%s)">>, <<"OpcodePrevIndex", 115, "BIT 6,(IX%s)">>,
     <<"OpcodePrevIndex", 116, "BIT 6,(IX%s)">>, <<"OpcodePrevIndex", 117, "BIT 6,(IX%s)">>,
     <<"OpcodePrevIndex", 118, "BIT 6,(IX%s)">>, <<"OpcodePrevIndex", 119, "BIT 6,(IX%s)">>,
     <<"OpcodePrevIndex", 120, "BIT 7,(IX%s)">>, <<"OpcodePrevIndex", 121, "BIT 7,(IX%s)">>,
     <<"OpcodePrevIndex", 122, "BIT 7,(IX%s)">>, <<"OpcodePrevIndex", 123, "BIT 7,(IX%s)">>,
     <<"OpcodePrevIndex", 124, "BIT 7,(IX%s)">>, <<"OpcodePrevIndex", 125, "BIT 7,(IX%s)">>,
     <<"OpcodePrevIndex", 126, "BIT 7,(IX%s)">>, <<"OpcodePrevIndex", 127, "BIT 7,(IX%s)">>,
     <<"OpcodePrevIndex", 128, "RES 0,(IX%s),B">>, <<"OpcodePrevIndex", 129, "RES 0,(IX%s),C">>,
     <<"OpcodePrevIndex", 130, "RES 0,(IX%s),D">>, <<"OpcodePrevIndex", 131, "RES 0,(IX%s),E">>,
     <<"OpcodePrevIndex", 132, "RES 0,(IX%s),H">>, <<"OpcodePrevIndex", 133, "RES 0,(IX%s),L">>,
     <<"OpcodePrevIndex", 134, "RES 0,(IX%s)">>, <<"OpcodePrevIndex", 135, "RES 0,(IX%s),A">>,
     <<"OpcodePrevIndex", 136, "RES 1,(IX%s),B">>, <<"OpcodePrevIndex", 137, "RES 1,(IX%s),C">>,
     <<"OpcodePrevIndex", 138, "RES 1,(IX%s),D">>, <<"OpcodePrevIndex", 139, "RES 1,(IX%s),E">>,
     <<"OpcodePrevIndex", 140, "RES 1,(IX%s),H">>, <<"OpcodePrevIndex", 141, "RES 1,(IX%s),L">>,
     <<"OpcodePrevIndex", 142, "RES 1,(IX%s)">>, <<"OpcodePrevIndex", 143, "RES 1,(IX%s),A">>,
     <<"OpcodePrevIndex", 144, "RES 2,(IX%s),B">>, <<"OpcodePrevIndex", 145, "RES 2,(IX%s),C">>,
     <<"OpcodePrevIndex", 146, "RES 2,(IX%s),D">>, <<"OpcodePrevIndex", 147, "RES 2,(IX%s),E">>,
     <<"OpcodePrevIndex", 148, "RES 2,(IX%s),H">>, <<"OpcodePrevIndex", 149, "RES 2,(IX%s),L">>,
     <<"OpcodePrevIndex", 150, "RES 2,(IX%s)">>, <<"OpcodePrevIndex", 151, "RES 2,(IX%s),A">>,
     <<"OpcodePrevIndex", 152, "RES 3,(IX%s),B">>, <<"OpcodePrevIndex", 153, "RES 3,(IX%s),C">>,
     <<"OpcodePrevIndex", 154, "RES 3,(IX%s),D">>, <<"OpcodePrevIndex", 155, "RES 3,(IX%s),E">>,
     <<"OpcodePrevIndex", 156, "RES 3,(IX%s),H">>, <<"OpcodePrevIndex", 157, "RES 3,(IX%s),L">>,
     <<"OpcodePrevIndex", 158, "RES 3,(IX%s)">>, <<"OpcodePrevIndex", 159, "RES 3,(IX%s),A">>,
     <<"OpcodePrevIndex", 160, "RES 4,(IX%s),B">>, <<"OpcodePrevIndex", 161, "RES 4,(IX%s),C">>,
     <<"OpcodePrevIndex", 162, "RES 4,(IX%s),D">>, <<"OpcodePrevIndex", 163, "RES 4,(IX%s),E">>,
     <<"OpcodePrevIndex", 164, "RES 4,(IX%s),H">>, <<"OpcodePrevIndex", 165, "RES 4,(IX%s),L">>,
     <<"OpcodePrevIndex", 166, "RES 4,(IX%s)">>, <<"OpcodePrevIndex", 167, "RES 4,(IX%s),A">>,
     <<"OpcodePrevIndex", 168, "RES 5,(IX%s),B">>, <<"OpcodePrevIndex", 169, "RES 5,(IX%s),C">>,
     <<"OpcodePrevIndex", 170, "RES 5,(IX%s),D">>, <<"OpcodePrevIndex", 171, "RES 5,(IX%s),E">>,
     <<"OpcodePrevIndex", 172, "RES 5,(IX%s),H">>, <<"OpcodePrevIndex", 173, "RES 5,(IX%s),L">>,
     <<"OpcodePrevIndex", 174, "RES 5,(IX%s)">>, <<"OpcodePrevIndex", 175, "RES 5,(IX%s),A">>,
     <<"OpcodePrevIndex", 176, "RES 6,(IX%s),B">>, <<"OpcodePrevIndex", 177, "RES 6,(IX%s),C">>,
     <<"OpcodePrevIndex", 178, "RES 6,(IX%s),D">>, <<"OpcodePrevIndex", 179, "RES 6,(IX%s),E">>,
     <<"OpcodePrevIndex", 180, "RES 6,(IX%s),H">>, <<"OpcodePrevIndex", 181, "RES 6,(IX%s),L">>,
     <<"OpcodePrevIndex", 182, "RES 6,(IX%s)">>, <<"OpcodePrevIndex", 183, "RES 6,(IX%s),A">>,
     <<"OpcodePrevIndex", 184, "RES 7,(IX%s),B">>, <<"OpcodePrevIndex", 185, "RES 7,(IX%s),C">>,
     <<"OpcodePrevIndex", 186, "RES 7,(IX%s),D">>, <<"OpcodePrevIndex", 187, "RES 7,(IX%s),E">>,
     <<"OpcodePrevIndex", 188, "RES 7,(IX%s),H">>, <<"OpcodePrevIndex", 189, "RES 7,(IX%s),L">>,
     <<"OpcodePrevIndex", 190, "RES 7,(IX%s)">>, <<"OpcodePrevIndex", 191, "RES 7,(IX%s),A">>,
     <<"OpcodePrevIndex", 192, "SET 0,(IX%s),B">>, <<"OpcodePrevIndex", 193, "SET 0,(IX%s),C">>,
     <<"OpcodePrevIndex", 194, "SET 0,(IX%s),D">>, <<"OpcodePrevIndex", 195, "SET 0,(IX%s),E">>,
     <<"OpcodePrevIndex", 196, "SET 0,(IX%s),H">>, <<"OpcodePrevIndex", 197, "SET 0,(IX%s),L">>,
     <<"OpcodePrevIndex", 198, "SET 0,(IX%s)">>, <<"OpcodePrevIndex", 199, "SET 0,(IX%s),A">>,
     <<"OpcodePrevIndex", 200, "SET 1,(IX%s),B">>, <<"OpcodePrevIndex", 201, "SET 1,(IX%s),C">>,
     <<"OpcodePrevIndex", 202, "SET 1,(IX%s),D">>, <<"OpcodePrevIndex", 203, "SET 1,(IX%s),E">>,
     <<"OpcodePrevIndex", 204, "SET 1,(IX%s),H">>, <<"OpcodePrevIndex", 205, "SET 1,(IX%s),L">>,
     <<"OpcodePrevIndex", 206, "SET 1,(IX%s)">>, <<"OpcodePrevIndex", 207, "SET 1,(IX%s),A">>,
     <<"OpcodePrevIndex", 208, "SET 2,(IX%s),B">>, <<"OpcodePrevIndex", 209, "SET 2,(IX%s),C">>,
     <<"OpcodePrevIndex", 210, "SET 2,(IX%s),D">>, <<"OpcodePrevIndex", 211, "SET 2,(IX%s),E">>,
     <<"OpcodePrevIndex", 212, "SET 2,(IX%s),H">>, <<"OpcodePrevIndex", 213, "SET 2,(IX%s),L">>,
     <<"OpcodePrevIndex", 214, "SET 2,(IX%s)">>, <<"OpcodePrevIndex", 215, "SET 2,(IX%s),A">>,
     <<"OpcodePrevIndex", 216, "SET 3,(IX%s),B">>, <<"OpcodePrevIndex", 217, "SET 3,(IX%s),C">>,
     <<"OpcodePrevIndex", 218, "SET 3,(IX%s),D">>, <<"OpcodePrevIndex", 219, "SET 3,(IX%s),E">>,
     <<"OpcodePrevIndex", 220, "SET 3,(IX%s),H">>, <<"OpcodePrevIndex", 221, "SET 3,(IX%s),L">>,
     <<"OpcodePrevIndex", 222, "SET 3,(IX%s)">>, <<"OpcodePrevIndex", 223, "SET 3,(IX%s),A">>,
     <<"OpcodePrevIndex", 224, "SET 4,(IX%s),B">>, <<"OpcodePrevIndex", 225, "SET 4,(IX%s),C">>,
     <<"OpcodePrevIndex", 226, "SET 4,(IX%s),D">>, <<"OpcodePrevIndex", 227, "SET 4,(IX%s),E">>,
     <<"OpcodePrevIndex", 228, "SET 4,(IX%s),H">>, <<"OpcodePrevIndex", 229, "SET 4,(IX%s),L">>,
     <<"OpcodePrevIndex", 230, "SET 4,(IX%s)">>, <<"OpcodePrevIndex", 231, "SET 4,(IX%s),A">>,
     <<"OpcodePrevIndex", 232, "SET 5,(IX%s),B">>, <<"OpcodePrevIndex", 233, "SET 5,(IX%s),C">>,
     <<"OpcodePrevIndex", 234, "SET 5,(IX%s),D">>, <<"OpcodePrevIndex", 235, "SET 5,(IX%s),E">>,
     <<"OpcodePrevIndex", 236, "SET 5,(IX%s),H">>, <<"OpcodePrevIndex", 237, "SET 5,(IX%s),L">>,
     <<"OpcodePrevIndex", 238, "SET 5,(IX%s)">>, <<"OpcodePrevIndex", 239, "SET 5,(IX%s),A">>,
     <<"OpcodePrevIndex", 240, "SET 6,(IX%s),B">>, <<"OpcodePrevIndex", 241, "SET 6,(IX%s),C">>,
     <<"OpcodePrevIndex", 242, "SET 6,(IX%s),D">>, <<"OpcodePrevIndex", 243, "SET 6,(IX%s),E">>,
     <<"OpcodePrevIndex", 244, "SET 6,(IX%s),H">>, <<"OpcodePrevIndex", 245, "SET 6,(IX%s),L">>,
     <<"OpcodePrevIndex", 246, "SET 6,(IX%s)">>, <<"OpcodePrevIndex", 247, "SET 6,(IX%s),A">>,
     <<"OpcodePrevIndex", 248, "SET 7,(IX%s),B">>, <<"OpcodePrevIndex", 249, "SET 7,(IX%s),C">>,
     <<"OpcodePrevIndex", 250, "SET 7,(IX%s),D">>, <<"OpcodePrevIndex", 251, "SET 7,(IX%s),E">>,
     <<"OpcodePrevIndex", 252, "SET 7,(IX%s),H">>, <<"OpcodePrevIndex", 253, "SET 7,(IX%s),L">>,
     <<"OpcodePrevIndex", 254, "SET 7,(IX%s)">>, <<"OpcodePrevIndex", 255, "SET 7,(IX%s),A">> >>

\* OpcodesDD: the entries of the table, in table order, as <<class, code, mnemonic>>
OpcodesDDTable ==
  << <<"OpcodeInvalid", 0, "">>, <<"OpcodeInvalid", 1, "">>, <<"OpcodeInvalid", 2, "">>,
     <<"OpcodeInvalid", 3, "">>, <<"OpcodeInvalid", 4, "">>, <<"OpcodeInvalid", 5, "">>,
     <<"OpcodeInvalid", 6, "">>, <<"OpcodeInvalid", 7, "">>, <<"OpcodeInvalid", 8, "">>,
     <<"Opcode", 9, "ADD IX,BC">>, <<"OpcodeInvalid", 10, "">>, <<"OpcodeInvalid", 11, "">>,
     <<"OpcodeInvalid", 12, "">>, <<"OpcodeInvalid", 13, "">>, <<"OpcodeInvalid", 14, "">>,
     <<"OpcodeInvalid", 15, "">>, <<"OpcodeInvalid", 16, "">>, <<"OpcodeInvalid", 17, "">>,
     <<"OpcodeInvalid", 18, "">>, <<"OpcodeInvalid", 19, "">>, <<"OpcodeInvalid", 20, "">>,
     <<"OpcodeInvalid", 21, "">>, <<"OpcodeInvalid", 22, "">>, <<"OpcodeInvalid", 23, "">>,
     <<"OpcodeInvalid", 24, "">>, <<"Opcode", 25, "ADD IX,DE">>, <<"OpcodeInvalid", 26, "">>,
     <<"OpcodeInvalid", 27, "">>, <<"OpcodeInvalid", 28, "">>, <<"OpcodeInvalid", 29, "">>,
     <<"OpcodeInvalid", 30, "">>, <<"OpcodeInvalid", 31, "">>, <<"OpcodeInvalid", 32, "">>,
     <<"Opcode", 33, "LD IX,#nn">>, <<"Opcode", 34, "LD (#nn),IX">>, <<"Opcode", 35, "INC IX">>,
     <<"Opcode", 36, "INC IXH">>, <<"Opcode", 37, "DEC IXH">>, <<"Opcode", 38, "LD IXH,#n">>,
     <<"OpcodeInvalid", 39, "">>, <<"OpcodeInvalid", 40, "">>, <<"Opcode", 41, "ADD IX,IX">>,
     <<"Opcode", 42, "LD IX,(#nn)">>, <<"Opcode", 43, "DEC IX">>, <<"Opcode", 44, "INC IXL">>,
     <<"Opcode", 45, "DEC IXL">>, <<"Opcode", 46, "LD IXL,#n">>, <<"OpcodeInvalid", 47, "">>,
     <<"OpcodeInvalid", 48, "">>, <<"OpcodeInvalid", 49, "">>, <<"OpcodeInvalid", 50, "">>,
     <<"OpcodeInvalid", 51, "">>, <<"OpcodeIndex", 52, "INC (IX%s)">>,
     <<"OpcodeIndex", 53, "DEC (IX%s)">>, <<"OpcodeIndexImmediate", 54, "LD (IX%s),%s">>,
     <<"OpcodeInvalid", 55, "">>, <<"OpcodeInvalid", 56, "">>, <<"Opcode", 57, "ADD IX,SP">>,
     <<"OpcodeInvalid", 58, "">>, <<"OpcodeInvalid", 59, "">>, <<"OpcodeInvalid", 60, "">>,
     <<"OpcodeInvalid", 61, "">>, <<"OpcodeInvalid", 62, "">>, <<"OpcodeInvalid", 63, "">>,
     <<"OpcodeInvalid", 64, "">>, <<"OpcodeInvalid", 65, "">>, <<"OpcodeInvalid", 66, "">>,
     <<"OpcodeInvalid", 67, "">>, <<"Opcode", 68, "LD B,IXH">>, <<"Opcode", 69, "LD B,IXL">>,
     <<"OpcodeIndex", 70, "LD B,(IX%s)">>, <<"OpcodeInvalid", 71, "">>, <<"OpcodeInvalid", 72, "">>,
     <<"OpcodeInvalid", 73, "">>, <<"OpcodeInvalid", 74, "">>, <<"OpcodeInvalid", 75, "">>,
     <<"Opcode", 76, "LD C,IXH">>, <<"Opcode", 77, "LD C,IXL">>, <<"OpcodeIndex", 78, "LD C,(IX%s)">>,
     <<"OpcodeInvalid", 79, "">>, <<"OpcodeInvalid", 80, "">>, <<"OpcodeInvalid", 81, "">>,
     <<"OpcodeInvalid", 82, "">>, <<"OpcodeInvalid", 83, "">>, <<"Opcode", 84, "LD D,IXH">>,
     <<"Opcode", 85, "LD D,IXL">>, <<"OpcodeIndex", 86, "LD D,(IX%s)">>, <<"OpcodeInvalid", 87, "">>,
     <<"OpcodeInvalid", 88, "">>, <<"OpcodeInvalid", 89, "">>, <<"OpcodeInvalid", 90, "">>,
     <<"OpcodeInvalid", 91, "">>, <<"Opcode", 92, "LD E,IXH">>, <<"Opcode", 93, "LD E,IXL">>,
     <<"OpcodeIndex", 94, "LD E,(IX%s)">>, <<"OpcodeInvalid", 95, "">>, <<"Opcode", 96, "LD IXH,B">>,
     <<"Opcode", 97, "LD IXH,C">>, <<"Opcode", 98, "LD IXH,D">>, <<"Opcode", 99, "LD IXH,E">>,
     <<"Opcode", 100, "LD IXH,IXH">>, <<"Opcode", 101, "LD IXH,IXL">>,
     <<"OpcodeIndex", 102, "LD H,(IX%s)">>, <<"Opcode", 103, "LD IXH,A">>,
     <<"Opcode", 104, "LD IXL,B">>, <<"Opcode", 105, "LD IXL,C">>, <<"Opcode", 106, "LD IXL,D">>,
     <<"Opcode", 107, "LD IXL,E">>, <<"Opcode", 108, "LD IXL,IXH">>, <<"Opcode", 109, "LD IXL,IXL">>,
     <<"OpcodeIndex", 110, "LD L,(IX%s)">>, <<"Opcode", 111, "LD IXL,A">>,
     <<"OpcodeIndex", 112, "LD (IX%s),B">>, <<"OpcodeIndex", 113, "LD (IX%s),C">>,
     <<"OpcodeIndex", 114, "LD (IX%s),D">>, <<"OpcodeIndex", 115, "LD (IX%s),E">>,
     <<"OpcodeIndex", 116, "LD (IX%s),H">>, <<"OpcodeIndex", 117, "LD (IX%s),L">>,
     <<"OpcodeInvalid", 118, "">>, <<"OpcodeIndex", 119, "LD (IX%s),A">>, <<"OpcodeInvalid", 120, "">>,
     <<"OpcodeInvalid", 121, "">>, <<"OpcodeInvalid", 122, "">>, <<"OpcodeInvalid", 123, "">>,
     <<"Opcode", 124, "LD A,IXH">>, <<"Opcode", 125, "LD A,IXL">>,
     <<"OpcodeIndex", 126, "LD A,(IX%s)">>, <<"OpcodeInvalid", 127, "">>, <<"OpcodeInvalid", 128, "">>,
     <<"OpcodeInvalid", 129, "">>, <<"OpcodeInvalid", 130, "">>, <<"OpcodeInvalid", 131, "">>,
     <<"Opcode", 132, "ADD A,IXH">>, <<"Opcode", 133, "ADD A,IXL">>,
     <<"OpcodeIndex", 134, "ADD A,(IX%s)">>, <<"OpcodeInvalid", 135, "">>, <<"OpcodeInvalid", 136, "">>,
     <<"OpcodeInvalid", 137, "">>, <<"OpcodeInvalid", 138, "">>, <<"OpcodeInvalid", 139, "">>,
     <<"Opcode", 140, "ADC A,IXH">>, <<"Opcode", 141, "ADC A,IXL">>,
     <<"OpcodeIndex", 142, "ADC A,(IX%s)">>, <<"OpcodeInvalid", 143, "">>, <<"OpcodeInvalid", 144, "">>,
     <<"OpcodeInvalid", 145, "">>, <<"OpcodeInvalid", 146, "">>, <<"OpcodeInvalid", 147, "">>,
     <<"Opcode", 148, "SUB IXH">>, <<"Opcode", 149, "SUB IXL">>, <<"OpcodeIndex", 150, "SUB (IX%s)">>,
     <<"OpcodeInvalid", 151, "">>, <<"OpcodeInvalid", 152, "">>, <<"OpcodeInvalid", 153, "">>,
     <<"OpcodeInvalid", 154, "">>, <<"OpcodeInvalid", 155, "">>, <<"Opcode", 156, "SBC A,IXH">>,
     <<"Opcode", 157, "SBC A,IXL">>, <<"OpcodeIndex", 158, "SBC A,(IX%s)">>,
     <<"OpcodeInvalid", 159, "">>, <<"OpcodeInvalid", 160, "">>, <<"OpcodeInvalid", 161, "">>,
     <<"OpcodeInvalid", 162, "">>, <<"OpcodeInvalid", 163, "">>, <<"Opcode", 164, "AND IXH">>,
     <<"Opcode", 165, "AND IXL">>, <<"OpcodeIndex", 166, "AND (IX%s)">>, <<"OpcodeInvalid", 167, "">>,
     <<"OpcodeInvalid", 168, "">>, <<"OpcodeInvalid", 169, "">>, <<"OpcodeInvalid", 170, "">>,
     <<"OpcodeInvalid", 171, "">>, <<"Opcode", 172, "XOR IXH">>, <<"Opcode", 173, "XOR IXL">>,
     <<"OpcodeIndex", 174, "XOR (IX%s)">>, <<"OpcodeInvalid", 175, "">>, <<"OpcodeInvalid", 176, "">>,
     <<"OpcodeInvalid", 177, "">>, <<"OpcodeInvalid", 178, "">>, <<"OpcodeInvalid", 179, "">>,
     <<"Opcode", 180, "OR IXH">>, <<"Opcode", 181, "OR IXL">>, <<"OpcodeIndex", 182, "OR (IX%s)">>,
     <<"OpcodeInvalid", 183, "">>, <<"OpcodeInvalid", 184, "">>, <<"OpcodeInvalid", 185, "">>,
     <<"OpcodeInvalid", 186, "">>, <<"OpcodeInvalid", 187, "">>, <<"Opcode", 188, "CP IXH">>,
     <<"Opcode", 189, "CP IXL">>, <<"OpcodeIndex", 190, "CP (IX%s)">>, <<"OpcodeInvalid", 191, "">>,
     <<"OpcodeInvalid", 192, "">>, <<"OpcodeInvalid", 193, "">>, <<"OpcodeInvalid", 194, "">>,
     <<"OpcodeInvalid", 195, "">>, <<"OpcodeInvalid", 196, "">>, <<"OpcodeInvalid", 197, "">>,
     <<"OpcodeInvalid", 198, "">>, <<"OpcodeInvalid", 199, "">>, <<"OpcodeInvalid", 200, "">>,
     <<"OpcodeInvalid", 201, "">>, <<"OpcodeInvalid", 202, "">>,
     <<"OpcodeExtended2", 203, "OpcodesDDCB">>, <<"OpcodeInvalid", 204, "">>,
     <<"OpcodeInvalid", 205, "">>, <<"OpcodeInvalid", 206, "">>, <<"OpcodeInvalid", 207, "">>,
     <<"OpcodeInvalid", 208, "">>, <<"OpcodeInvalid", 209, "">>, <<"OpcodeInvalid", 210, "">>,
     <<"OpcodeInvalid", 211, "">>, <<"OpcodeInvalid", 212, "">>, <<"OpcodeInvalid", 213, "">>,
     <<"OpcodeInvalid", 214, "">>, <<"OpcodeInvalid", 215, "">>, <<"OpcodeInvalid", 216, "">>,
     <<"OpcodeInvalid", 217, "">>, <<"OpcodeInvalid", 218, "">>, <<"OpcodeInvalid", 219, "">>,
     <<"OpcodeInvalid", 220, "">>, <<"OpcodeNOP", 221, "">>, <<"OpcodeInvalid", 222, "">>,
     <<"OpcodeInvalid", 223, "">>, <<"OpcodeInvalid", 224, "">>, <<"Opcode", 225, "POP IX">>,
     <<"OpcodeInvalid", 226, "">>, <<"Opcode", 227, "EX (SP),IX">>, <<"OpcodeInvalid", 228, "">>,
     <<"Opcode", 229, "PUSH IX">>, <<"OpcodeInvalid", 230, "">>, <<"OpcodeInvalid", 231, "">>,
     <<"OpcodeInvalid", 232, "">>, <<"Opcode", 233, "JP (IX)">>, <<"OpcodeInvalid", 234, "">>,
     <<"OpcodeInvalid", 235, "">>, <<"OpcodeInvalid", 236, "">>, <<"OpcodeNOP", 237, "">>,
     <<"OpcodeInvalid", 238, "">>, <<"OpcodeInvalid", 239, "">>, <<"OpcodeInvalid", 240, "">>,
     <<"OpcodeInvalid", 241, "">>, <<"OpcodeInvalid", 242, "">>, <<"OpcodeInvalid", 243, "">>,
     <<"OpcodeInvalid", 244, "">>, <<"OpcodeInvalid", 245, "">>, <<"OpcodeInvalid", 246, "">>,
     <<"OpcodeInvalid", 247, "">>, <<"OpcodeInvalid", 248, "">>, <<"Opcode", 249, "LD SP,IX">>,
     <<"OpcodeInvalid", 250, "">>, <<"OpcodeInvalid", 251, "">>, <<"OpcodeInvalid", 252, "">>,
     <<"OpcodeNOP", 253, "">>, <<"OpcodeInvalid", 254, "">>, <<"OpcodeInvalid", 255, "">> >>

\* Opcodes: the entries of the table, in table order, as <<class, code, mnemonic>>
OpcodesTable ==
  << <<"Opcode", 0, "NOP">>, <<"Opcode", 1, "LD BC,#nn">>, <<"Opcode", 2, "LD (BC),A">>,
     <<"Opcode", 3, "INC BC">>, <<"Opcode", 4, "INC B">>, <<"Opcode", 5, "DEC B">>,
     <<"Opcode", 6, "LD B,#n">>, <<"Opcode", 7, "RLCA">>, <<"Opcode", 8, "EX AF,AF'">>,
     <<"Opcode", 9, "ADD HL,BC">>, <<"Opcode", 10, "LD A,(BC)">>, <<"Opcode", 11, "DEC BC">>,
     <<"Opcode", 12, "INC C">>, <<"Opcode", 13, "DEC C">>, <<"Opcode", 14, "LD C,#n">>,
     <<"Opcode", 15, "RRCA">>, <<"Opcode", 16, "DJNZ #n">>, <<"Opcode", 17, "LD DE,#nn">>,
     <<"Opcode", 18, "LD (DE),A">>, <<"Opcode", 19, "INC DE">>, <<"Opcode", 20, "INC D">>,
     <<"Opcode", 21, "DEC D">>, <<"Opcode", 22, "LD D,#n">>, <<"Opcode", 23, "RLA">>,
     <<"Opcode", 24, "JR #n">>, <<"Opcode", 25, "ADD HL,DE">>, <<"Opcode", 26, "LD A,(DE)">>,
     <<"Opcode", 27, "DEC DE">>, <<"Opcode", 28, "INC E">>, <<"Opcode", 29, "DEC E">>,
     <<"Opcode", 30, "LD E,#n">>, <<"Opcode", 31, "RRA">>, <<"Opcode", 32, "JR NZ,#n">>,
     <<"Opcode", 33, "LD HL,#nn">>, <<"Opcode", 34, "LD (#nn),HL">>, <<"Opcode", 35, "INC HL">>,
     <<"Opcode", 36, "INC H">>, <<"Opcode", 37, "DEC H">>, <<"Opcode", 38, "LD H,#n">>,
     <<"Opcode", 39, "DAA">>, <<"Opcode", 40, "JR Z,#n">>, <<"Opcode", 41, "ADD HL,HL">>,
     <<"Opcode", 42, "LD HL,(#nn)">>, <<"Opcode", 43, "DEC HL">>, <<"Opcode", 44, "INC L">>,
     <<"Opcode", 45, "DEC L">>, <<"Opcode", 46, "LD L,#n">>, <<"Opcode", 47, "CPL">>,
     <<"Opcode", 48, "JR NC,#n">>, <<"Opcode", 49, "LD SP,#nn">>, <<"Opcode", 50, "LD (#nn),A">>,
     <<"Opcode", 51, "INC SP">>, <<"Opcode", 52, "INC (HL)">>, <<"Opcode", 53, "DEC (HL)">>,
     <<"Opcode", 54, "LD (HL),#n">>, <<"Opcode", 55, "SCF">>, <<"Opcode", 56, "JR C,#n">>,
     <<"Opcode", 57, "ADD HL,SP">>, <<"Opcode", 58, "LD A,(#nn)">>, <<"Opcode", 59, "DEC SP">>,
     <<"Opcode", 60, "INC A">>, <<"Opcode", 61, "DEC A">>, <<"Opcode", 62, "LD A,#n">>,
     <<"Opcode", 63, "CCF">>, <<"Opcode", 64, "LD B,B">>, <<"Opcode", 65, "LD B,C">>,
     <<"Opcode", 66, "LD B,D">>, <<"Opcode", 67, "LD B,E">>, <<"Opcode", 68, "LD B,H">>,
     <<"Opcode", 69, "LD B,L">>, <<"Opcode", 70, "LD B,(HL)">>, <<"Opcode", 71, "LD B,A">>,
     <<"Opcode", 72, "LD C,B">>, <<"Opcode", 73, "LD C,C">>, <<"Opcode", 74, "LD C,D">>,
     <<"Opcode", 75, "LD C,E">>, <<"Opcode", 76, "LD C,H">>, <<"Opcode", 77, "LD C,L">>,
     <<"Opcode", 78, "LD C,(HL)">>, <<"Opcode", 79, "LD C,A">>, <<"Opcode", 80, "LD D,B">>,
     <<"Opcode", 81, "LD D,C">>, <<"Opcode", 82, "LD D,D">>, <<"Opcode", 83, "LD D,E">>,
     <<"Opcode", 84, "LD D,H">>, <<"Opcode", 85, "LD D,L">>, <<"Opcode", 86, "LD D,(HL)">>,
     <<"Opcode", 87, "LD D,A">>, <<"Opcode", 88, "LD E,B">>, <<"Opcode", 89, "LD E,C">>,
     <<"Opcode", 90, "LD E,D">>, <<"Opcode", 91, "LD E,E">>, <<"Opcode", 92, "LD E,H">>,
     <<"Opcode", 93, "LD E,L">>, <<"Opcode", 94, "LD E,(HL)">>, <<"Opcode", 95, "LD E,A">>,
     <<"Opcode", 96, "LD H,B">>, <<"Opcode", 97, "LD H,C">>, <<"Opcode", 98, "LD H,D">>,
     <<"Opcode", 99, "LD H,E">>, <<"Opcode", 100, "LD H,H">>, <<"Opcode", 101, "LD H,L">>,
     <<"Opcode", 102, "LD H,(HL)">>, <<"Opcode", 103, "LD H,A">>, <<"Opcode", 104, "LD L,B">>,
     <<"Opcode", 105, "LD L,C">>, <<"Opcode", 106, "LD L,D">>, <<"Opcode", 107, "LD L,E">>,
     <<"Opcode", 108, "LD L,H">>, <<"Opcode", 109, "LD L,L">>, <<"Opcode", 110, "LD L,(HL)">>,
     <<"Opcode", 111, "LD L,A">>, <<"Opcode", 112, "LD (HL),B">>, <<"Opcode", 113, "LD (HL),C">>,
     <<"Opcode", 114, "LD (HL),D">>, <<"Opcode", 115, "LD (HL),E">>, <<"Opcode", 116, "LD (HL),H">>,
     <<"Opcode", 117, "LD (HL),L">>, <<"Opcode", 118, "HALT">>, <<"Opcode", 119, "LD (HL),A">>,
     <<"Opcode", 120, "LD A,B">>, <<"Opcode", 121, "LD A,C">>, <<"Opcode", 122, "LD A,D">>,
     <<"Opcode", 123, "LD A,E">>, <<"Opcode", 124, "LD A,H">>, <<"Opcode", 125, "LD A,L">>,
     <<"Opcode", 126, "LD A,(HL)">>, <<"Opcode", 127, "LD A,A">>, <<"Opcode", 128, "ADD A,B">>,
     <<"Opcode", 129, "ADD A,C">>, <<"Opcode", 130, "ADD A,D">>, <<"Opcode", 131, "ADD A,E">>,
     <<"Opcode", 132, "ADD A,H">>, <<"Opcode", 133, "ADD A,L">>, <<"Opcode", 134, "ADD A,(HL)">>,
     <<"Opcode", 135, "ADD A,A">>, <<"Opcode", 136, "ADC A,B">>, <<"Opcode", 137, "ADC A,C">>,
     <<"Opcode", 138, "ADC A,D">>, <<"Opcode", 139, "ADC A,E">>, <<"Opcode", 140, "ADC A,H">>,
     <<"Opcode", 141, "ADC A,L">>, <<"Opcode", 142, "ADC A,(HL)">>, <<"Opcode", 143, "ADC A,A">>,
     <<"Opcode", 144, "SUB B">>, <<"Opcode", 145, "SUB C">>, <<"Opcode", 146, "SUB D">>,
     <<"Opcode", 147, "SUB E">>, <<"Opcode", 148, "SUB H">>, <<"Opcode", 149, "SUB L">>,
     <<"Opcode", 150, "SUB (HL)">>, <<"Opcode", 151, "SUB A">>, <<"Opcode", 152, "SBC A,B">>,
     <<"Opcode", 153, "SBC A,C">>, <<"Opcode", 154, "SBC A,D">>, <<"Opcode", 155, "SBC A,E">>,
     <<"Opcode", 156, "SBC A,H">>, <<"Opcode", 157, "SBC A,L">>, <<"Opcode", 158, "SBC A,(HL)">>,
     <<"Opcode", 159, "SBC A,A">>, <<"Opcode", 160, "AND B">>, <<"Opcode", 161, "AND C">>,
     <<"Opcode", 162, "AND D">>, <<"Opcode", 163, "AND E">>, <<"Opcode", 164, "AND H">>,
     <<"Opcode", 165, "AND L">>, <<"Opcode", 166, "AND (HL)">>, <<"Opcode", 167, "AND A">>,
     <<"Opcode", 168, "XOR B">>, <<"Opcode", 169, "XOR C">>, <<"Opcode", 170, "XOR D">>,
     <<"Opcode", 171, "XOR E">>, <<"Opcode", 172, "XOR H">>, <<"Opcode", 173, "XOR L">>,
     <<"Opcode", 174, "XOR (HL)">>, <<"Opcode", 175, "XOR A">>, <<"Opcode", 176, "OR B">>,
     <<"Opcode", 177, "OR C">>, <<"Opcode", 178, "OR D">>, <<"Opcode", 179, "OR E">>,
     <<"Opcode", 180, "OR H">>, <<"Opcode", 181, "OR L">>, <<"Opcode", 182, "OR (HL)">>,
     <<"Opcode", 183, "OR A">>, <<"Opcode", 184, "CP B">>, <<"Opcode", 185, "CP C">>,
     <<"Opcode", 186, "CP D">>, <<"Opcode", 187, "CP E">>, <<"Opcode", 188, "CP H">>,
     <<"Opcode", 189, "CP L">>, <<"Opcode", 190, "CP (HL)">>, <<"Opcode", 191, "CP A">>,
     <<"Opcode", 192, "RET NZ">>, <<"Opcode", 193, "POP BC">>, <<"Opcode", 194, "JP NZ,#nn">>,
     <<"Opcode", 195, "JP #nn">>, <<"Opcode", 196, "CALL NZ,#nn">>, <<"Opcode", 197, "PUSH BC">>,
     <<"Opcode", 198, "ADD A,#n">>, <<"Opcode", 199, "RST %s">>, <<"Opcode", 200, "RET Z">>,
     <<"Opcode", 201, "RET">>, <<"Opcode", 202, "JP Z,#nn">>, <<"OpcodeExtended", 203, "OpcodesCB">>,
     <<"Opcode", 204, "CALL Z,#nn">>, <<"Opcode", 205, "CALL #nn">>, <<"Opcode", 206, "ADC A,#n">>,
     <<"Opcode", 207, "RST %s">>, <<"Opcode", 208, "RET NC">>, <<"Opcode", 209, "POP DE">>,
     <<"Opcode", 210, "JP NC,#nn">>, <<"Opcode", 211, "OUT (#n),A">>, <<"Opcode", 212, "CALL NC,#nn">>,
     <<"Opcode", 213, "PUSH DE">>, <<"Opcode", 214, "SUB #n">>, <<"Opcode", 215, "RST %s">>,
     <<"Opcode", 216, "RET C">>, <<"Opcode", 217, "EXX">>, <<"Opcode", 218, "JP C,#nn">>,
     <<"Opcode", 219, "IN A,(#n)">>, <<"Opcode", 220, "CALL C,#nn">>,
     <<"OpcodeExtended", 221, "OpcodesDD">>, <<"Opcode", 222, "SBC A,#n">>, <<"Opcode", 223, "RST %s">>,
     <<"Opcode", 224, "RET PO">>, <<"Opcode", 225, "POP HL">>, <<"Opcode", 226, "JP PO,#nn">>,
     <<"Opcode", 227, "EX (SP),HL">>, <<"Opcode", 228, "CALL PO,#nn">>, <<"Opcode", 229, "PUSH HL">>,
     <<"Opcode", 230, "AND #n">>, <<"Opcode", 231, "RST %s">>, <<"Opcode", 232, "RET PE">>,
     <<"Opcode", 233, "JP (HL)">>, <<"Opcode", 234, "JP PE,#nn">>, <<"Opcode", 235, "EX DE,HL">>,
     <<"Opcode", 236, "CALL PE,#nn">>, <<"OpcodeExtended", 237, "OpcodesED">>,
     <<"Opcode", 238, "XOR #n">>, <<"Opcode", 239, "RST %s">>, <<"Opcode", 240, "RET P">>,
     <<"Opcode", 241, "POP AF">>, <<"Opcode", 242, "JP P,#nn">>, <<"Opcode", 243, "DI">>,
     <<"Opcode", 244, "CALL P,#nn">>, <<"Opcode", 245, "PUSH AF">>, <<"Opcode", 246, "OR #n">>,
     <<"Opcode", 247, "RST %s">>, <<"Opcode", 248, "RET M">>, <<"Opcode", 249, "LD SP,HL">>,
     <<"Opcode", 250, "JP M,#nn">>, <<"Opcode", 251, "EI">>, <<"Opcode", 252, "CALL M,#nn">>,
     <<"OpcodeExtended", 253, "OpcodesFD">>, <<"Opcode", 254, "CP #n">>, <<"Opcode", 255, "RST %s">> >>
(***************************************************************************)
(* The opcode tables as InitOpcodes leaves them, entry by entry: <table>(i)*)
(* is the object at index i - 1 of the static array of that name.          *)
(***************************************************************************)
OpcodesED(i) == FixLength(Construct(OpcodesEDTable[i]))

OpcodesCB(i) == FixLength(Construct(OpcodesCBTable[i]))

OpcodesDDCB(i) == FixLength(Construct(OpcodesDDCBTable[i]))

\* Clones of the DDCB entries, the first 'IX' of the mnemonic replaced by 'IY'.
OpcodesFDCB(i) == [OpcodesDDCB(i) EXCEPT !.name = replaceFirst(@, "IX", "IY")]

OpcodesDD(i) == FixLength(Construct(OpcodesDDTable[i]))

\* Opcode.OpcodesDD.map(...), for the DD entry opcode: a clone with every 'IX'
\* replaced by 'IY'; the CB entry is a new OpcodeExtended2 over the FDCB table.
cloneForFD(opcode) ==
  IF opcode.code = 203
    THEN Construct(<<"OpcodeExtended2", 203, "OpcodesFDCB">>)
    ELSE [opcode EXCEPT !.name = replaceAll(@, "IX", "IY")]

OpcodesFD(i) == cloneForFD(OpcodesDD(i))

Opcodes(i) == Construct(OpcodesTable[i])

\* opcodes[code] for the static table with the given name.
OpcodeTable(opcodes, code) ==
  CASE opcodes = "Opcodes" -> Opcodes(code + 1)
    [] opcodes = "OpcodesED" -> OpcodesED(code + 1)
    [] opcodes = "OpcodesCB" -> OpcodesCB(code + 1)
    [] opcodes = "OpcodesDD" -> OpcodesDD(code + 1)
    [] opcodes = "OpcodesFD" -> OpcodesFD(code + 1)
    [] opcodes = "OpcodesDDCB" -> OpcodesDDCB(code + 1)
    [] opcodes = "OpcodesFDCB" -> OpcodesFDCB(code + 1)

(***************************************************************************)
(* BaseMemory: the byte image.  The image is kept sparse: a function from  *)
(* the loaded addresses to their bytes; every other byte is 0.             *)
(***************************************************************************)
\* BaseMemory.getValueAt(address): the byte at address (modulo the 64K space).
byteAt(memory, a) == IF a \in DOMAIN memory THEN memory[a] ELSE 0

getValueAt(memory, address) == byteAt(memory, Mask64k(address))

\* BaseMemory.getWordValueAt(address): little-endian word.
getWordValueAt(memory, address) ==
  getValueAt(memory, address) + 256 * getValueAt(memory, address + 1)

\* BaseMemory.getBigEndianWordValueAt(address).
getBigEndianWordValueAt(memory, address) ==
  256 * getValueAt(memory, address) + getValueAt(memory, address + 1)

(***************************************************************************)
(* Decoding.  getOpcodeAt returns the table object itself ("this") after   *)
(* writing its value field, so the value fields of the table objects are   *)
(* program state: objs maps <<table, code>> to the value currently stored  *)
(* in that object, for the objects that have been written.                 *)
(***************************************************************************)
\* if (this.value >= 0x80) this.value -= 0x100
SignedByte(b) == IF b >= 128 THEN b - 256 ELSE b

RECURSIVE tableObjectAt(_, _, _)
\* opcode.getOpcodeAt(memory, address) down to the object whose own getOpcodeAt
\* decodes the value: OpcodeExtended.getOpcodeAt defers to its table at
\* address + 1, OpcodeExtended2.getOpcodeAt at address + 2.
realOpcode(memory, address, opcodes, opcode) ==
  CASE opcode.cls = "OpcodeExtended" -> tableObjectAt(memory, address + 1, opcode.opcodes)
    [] opcode.cls = "OpcodeExtended2" -> tableObjectAt(memory, address + 2, opcode.opcodes)
    [] OTHER -> [opcodes |-> opcodes, address |-> address, opcode |-> opcode]

\* static Opcode.getOpcodeAt(memory, address, opcodes): the table object that
\* decodes, the table it is in and the address it is decoded at.
tableObjectAt(memory, address, opcodes) ==
  realOpcode(memory, address, opcodes, OpcodeTable(opcodes, getValueAt(memory, address)))

\* The value field of the table object at.opcode as it currently is.
storedValue(objs, at) ==
  IF <<at.opcodes, at.opcode.code>> \in DOMAIN objs
    THEN objs[<<at.opcodes, at.opcode.code>>]
    ELSE at.opcode.value

\* baseValueAt with the relative jump added onto the value the object already holds.
baseValueAtAccumulating(valueType, stored, memory, address) ==
  CASE valueType \in {"CODE_RST", "NONE"} -> stored
    [] valueType \in {"CODE_LBL", "CODE_SUB", "DATA_LBL", "NUMBER_WORD"} ->
         getWordValueAt(memory, address + 1)
    [] valueType = "NUMBER_WORD_BIG_ENDIAN" ->
         getBigEndianWordValueAt(memory, address + 1)
    [] valueType = "RELATIVE_INDEX" ->
         SignedByte(getValueAt(memory, address + 1))
    [] valueType \in {"CODE_LOCAL_LBL", "CODE_LOCAL_LOOP"} ->
         stored + SignedByte(getValueAt(memory, address + 1)) + address + 2
    [] valueType \in {"NUMBER_BYTE", "PORT_LBL"} ->
         getValueAt(memory, address + 1)

\* Opcode.getOpcodeAt(memory, address) of an Opcode object (also OpcodeIndex,
\* OpcodeNOP, OpcodeInvalid): the value the switch on valueType leaves in this.value.
baseValueAt(valueType, stored, memory, address) ==
  CASE valueType \in {"CODE_RST", "NONE"} -> stored
    [] valueType \in {"CODE_LBL", "CODE_SUB", "DATA_LBL", "NUMBER_WORD"} ->
         getWordValueAt(memory, address + 1)
    [] valueType = "NUMBER_WORD_BIG_ENDIAN" ->
         getBigEndianWordValueAt(memory, address + 1)
    [] valueType = "RELATIVE_INDEX" ->
         SignedByte(getValueAt(memory, address + 1))
    [] valueType \in {"CODE_LOCAL_LBL", "CODE_LOCAL_LOOP"} ->
         SignedByte(getValueAt(memory, address + 1)) + address + 2
    [] valueType \in {"NUMBER_BYTE", "PORT_LBL"} ->
         getValueAt(memory, address + 1)

\* valueAt with the index of OpcodePrevIndex read behind the opcode byte.
valueAtBehind(objs, memory, at) ==
  CASE at.opcode.cls \in {"OpcodePrevIndex", "OpcodeIndexImmediate"} ->
         SignedByte(getValueAt(memory, at.address + 1))
    [] OTHER -> baseValueAt(at.opcode.valueType, storedValue(objs, at), memory, at.address)

\* <object>.getOpcodeAt(memory, address), by class: the value written to this.value.
valueAt(objs, memory, at) ==
  CASE at.opcode.cls = "OpcodePrevIndex" -> SignedByte(getValueAt(memory, at.address - 1))
    [] at.opcode.cls = "OpcodeIndexImmediate" -> SignedByte(getValueAt(memory, at.address + 1))
    [] OTHER -> baseValueAt(at.opcode.valueType, storedValue(objs, at), memory, at.address)

\* The object the decode returns, as it reads at the moment of the return.
decodedObject(objs, memory, at) == [at.opcode EXCEPT !.value = valueAt(objs, memory, at)]

\* Opcode.getOpcodeAt(memory, address) with the table objects in state objs.
getOpcodeAtIn(objs, memory, address) ==
  decodedObject(objs, memory, tableObjectAt(memory, address, "Opcodes"))

\* this.value = ... : the table objects after the decode wrote the value.
objsWritten(objs, key, value) ==
  [k \in DOMAIN objs \cup {key} |-> IF k = key THEN value ELSE objs[k]]

\* A decode that leaves the value fields of the table objects alone.
objsDecodedKept(objs, memory, at) ==
  objsWritten(objs, <<at.opcodes, at.opcode.code>>, storedValue(objs, at))

\* The table objects after the decode of the object at.
objsDecoded(objs, memory, at) ==
  objsWritten(objs, <<at.opcodes, at.opcode.code>>, valueAt(objs, memory, at))

\* The table objects after Opcode.getOpcodeAt(memory, address).
objsAfter(objs, memory, address) ==
  objsDecoded(objs, memory, tableObjectAt(memory, address, "Opcodes"))

\* No table object written yet: every value field as constructed.
NoObjs == [k \in {} |-> 0]

\* Opcode.getOpcodeAt(memory, address) as the passes use it: the result is read
\* (pass 1) or cloned (pass 2) before the next decode, and objects of value type
\* NONE and CODE_RST keep their constructed value (DecodeKeepsConstructed).
getOpcodeAt(memory, address) == getOpcodeAtIn(NoObjs, memory, address)

(***************************************************************************)
(* memory.ts: the per-address attributes.  memoryAttr maps an address to   *)
(* its set of MemAttribute flags; an address outside its domain has none   *)
(* (the array element is undefined or 0).                                  *)
(***************************************************************************)
\* this.memoryAttr[address], without a range check.
attrAt(attrs, address) == IF address \in DOMAIN attrs THEN attrs[address] ELSE {}

\* The same attributes, stored without the addresses that have no flag.
normalized(attrs) ==
  [a \in {b \in DOMAIN attrs : attrs[b] # {}} |-> attrs[a]]

\* Memory.getAttributeAt(address): no flags outside 0..0xFFFF.
getAttributeAt(attrs, address) ==
  IF address < 0 \/ address >= 65536 THEN {} ELSE attrAt(attrs, address)

\* resetAttributeFlag that leaves the flags of the previous analysis in place.
resetAttributeFlagKept(attrs, keep) == attrs

\* Memory.resetAttributeFlag(~keep): memoryAttr[k] &= keep for every k.
resetAttributeFlag(attrs, keep) ==
  normalized([a \in DOMAIN attrs |-> attrs[a] \cap keep])

\* addAttributesAt that stores attr over the range instead of ORing it in (as
\* Memory.setAttributesAt does).
addAttributesAtStored(attrs, address, length, attr) ==
  LET range == address .. (address + length - 1)
  IN [a \in DOMAIN attrs \cup range |-> IF a \in range THEN attr ELSE attrs[a]]

\* Memory.addAttributesAt(address, length, attr): ORs attr over the range.
addAttributesAt(attrs, address, length, attr) ==
  LET range == address .. (address + length - 1)
  IN [a \in DOMAIN attrs \cup range |->
        IF a \in range THEN attrAt(attrs, a) \cup attr ELSE attrs[a]]

\* Memory.addAttributeAt(address, attr).
addAttributeAt(attrs, address, attr) == addAttributesAt(attrs, address, 1, attr)

\* Memory.searchAddrWithAttribute(searchAttr, addr64k, len): the first address of
\* the range with one of the flags, as <<address>>, or <<>> for undefined.
searchAddrWithAttribute(attrs, searchAttr, addr64k, len) ==
  LET hits == {a \in addr64k .. (addr64k + len - 1) : attrAt(attrs, a) \cap searchAttr # {}}
  IN IF hits = {} THEN <<>> ELSE <<CHOOSE a \in hits : \A b \in hits : a <= b>>

\* The index of the last byte of bytes that setMemory(origin, bytes) stores at addr.
lastIndexAt(origin, bytes, addr) ==
  CHOOSE i \in 1..Len(bytes) :
    /\ Mask64k(origin + i - 1) = addr
    /\ \A j \in 1..Len(bytes) : Mask64k(origin + j - 1) = addr => j <= i

\* Memory.setMemory(origin, bytes): the bytes afterwards.
setMemoryBytes(mem, origin, bytes) ==
  LET range == {Mask64k(origin + i - 1) : i \in 1..Len(bytes)}
  IN [a \in DOMAIN mem \cup range |->
        IF a \in range THEN bytes[lastIndexAt(origin, bytes, a)] ELSE mem[a]]

\* Memory.setMemory(origin, bytes): the attributes afterwards (ASSIGNED ORed in).
setMemoryAttr(attrs, origin, bytes) ==
  LET range == {Mask64k(origin + i - 1) : i \in 1..Len(bytes)}
  IN [a \in DOMAIN attrs \cup range |->
        IF a \in range THEN attrAt(attrs, a) \cup {"ASSIGNED"} ELSE attrs[a]]

(***************************************************************************)
(* comments.ts: the diagnostics, a map from address to a list of comments. *)
(* A comment is kept as <<kind, targetAddress>>.                           *)
(***************************************************************************)
commentsAt(cmts, addr64k) == IF addr64k \in DOMAIN cmts THEN cmts[addr64k] ELSE <<>>

\* Comments.addCommentForAddress(addr64k, comment).
addCommentForAddress(cmts, addr64k, comment) ==
  [a \in DOMAIN cmts \cup {addr64k} |->
     IF a = addr64k THEN Append(commentsAt(cmts, a), comment) ELSE cmts[a]]

\* addAmbiguousComment that records nothing.
addAmbiguousCommentDropped(cmts, originAddress, targetAddress) == cmts

\* Comments.addAmbiguousComment(originAddress, targetAddress).
addAmbiguousComment(cmts, originAddress, targetAddress) ==
  addCommentForAddress(cmts, originAddress, <<"ambiguous", targetAddress>>)

\* Comments.addBranchToUnassignedMemory(originAddress, targetAddress).
addBranchToUnassignedMemory(cmts, originAddress, targetAddress) ==
  addCommentForAddress(cmts, originAddress, <<"unassigned", targetAddress>>)

(***************************************************************************)
(* asmnode.ts: AsmNode.  A node is referred to by <<run, "n", start>> when *)
(* it is in the node table of the run-th getFlowGraph call and by          *)
(* <<run, "p", index>> when it is a placeholder outside the table (index   *)
(* into extraNodes); two references are the same object iff they are equal.*)
(* An undefined label is the empty string (the code only tests !label).    *)
(***************************************************************************)
\* new AsmNode() with start set.
NewAsmNode(start) ==
  [start |-> start, length |-> 0, label |-> "", instructions |-> <<>>,
   dataReferences |-> <<>>, isSubroutine |-> FALSE, stop |-> FALSE,
   branchNodes |-> <<>>, predecessors |-> <<>>, callee |-> <<>>, callers |-> <<>>]

\* The empty node table / label table / diagnostics / block array.
EmptyMap == [a \in {} |-> 0]

\* A graph: the node table (with its insertion order), the placeholders and the diagnostics.
nodeOf(g, ref) == IF ref[2] = "n" THEN g.nodes[ref[3]] ELSE g.extraNodes[ref[3]]

withNode(g, ref, node) ==
  IF ref[2] = "n"
    THEN [g EXCEPT !.nodes = [@ EXCEPT ![ref[3]] = node]]
    ELSE [g EXCEPT !.extraNodes = [@ EXCEPT ![ref[3]] = node]]

\* createNodeInMap without node.start = addr64k.
createNodeInMapUnset(g, addr64k) ==
  [g EXCEPT !.nodes = [a \in DOMAIN g.nodes \cup {addr64k} |->
                         IF a = addr64k THEN NewAsmNode(0) ELSE g.nodes[a]],
            !.nodeOrder = IF addr64k \in DOMAIN g.nodes THEN @ ELSE Append(@, addr64k)]

\* SmartDisassembler.createNodeInMap(addr64k): this.nodes.set(addr64k, node).
createNodeInMap(g, addr64k) ==
  [g EXCEPT !.nodes = [a \in DOMAIN g.nodes \cup {addr64k} |->
                         IF a = addr64k THEN NewAsmNode(addr64k) ELSE g.nodes[a]],
            !.nodeOrder = IF addr64k \in DOMAIN g.nodes THEN @ ELSE Append(@, addr64k)]

\* SmartDisassembler.getSkipForAddress(addr64k): 0 stands for undefined.
getSkipForAddress(skips, addr64k) == IF addr64k \in DOMAIN skips THEN skips[addr64k] ELSE 0

RECURSIVE getAddressForCodeFirst(_, _)
\* SmartDisassembler.getAddressForCodeFirst(addr64k): back to the CODE_FIRST byte.
getAddressForCodeFirst(attrs, addr64k) ==
  IF "CODE_FIRST" \in getAttributeAt(attrs, addr64k) THEN addr64k
  ELSE getAddressForCodeFirst(attrs, addr64k - 1)

(***************************************************************************)
(* Pass 1: createNodes / createNodeForAddress.                             *)
(***************************************************************************)
RECURSIVE skippedAddress(_, _)
\* The skip loop of createNodeForAddress: addr64k = (addr64k + skip) & 0xFFFF
\* while a skip is configured for addr64k.
skippedAddress(skips, addr64k) ==
  IF getSkipForAddress(skips, addr64k) # 0
    THEN skippedAddress(skips, Mask64k(addr64k + getSkipForAddress(skips, addr64k)))
    ELSE addr64k

RECURSIVE skipsOn(_, _, _)
\* The skip loop of createNodeForAddress is still in a skip after n more skips.
skipsOn(skips, addr64k, n) ==
  IF getSkipForAddress(skips, addr64k) = 0 THEN FALSE
  ELSE IF n = 0 THEN TRUE
  ELSE skipsOn(skips, Mask64k(addr64k + getSkipForAddress(skips, addr64k)), n - 1)

\* The skip loop of createNodeForAddress from addr64k never ends: it is in a skip
\* after as many skips as the table has entries, so it has come back to an address
\* it has left before.
skipLoops(skips, addr64k) == skipsOn(skips, addr64k, Cardinality(DOMAIN skips))

\* A marking of the first byte alone.
markOpcodeFirstOnly(attrs, addr64k, length) ==
  addAttributeAt(attrs, addr64k, {"FLOW_ANALYZED", "CODE", "CODE_FIRST"})

\* addAttributesAt(addr64k, length, FLOW_ANALYZED | CODE); addAttributeAt(addr64k, CODE_FIRST).
markOpcode(attrs, addr64k, length) ==
  addAttributeAt(addAttributesAt(attrs, addr64k, length, {"FLOW_ANALYZED", "CODE"}),
                 addr64k, {"CODE_FIRST"})

\* Pushes that queue the natural flow behind an instruction that stops as well.
pushBranchesAlways(skips, queue, refOpcode, next) ==
  queue \o <<skippedAddress(skips, next), refOpcode.value>>

\* allBranchAddresses after the pushes for a branch instruction: the natural flow
\* (behind the skips) unless the instruction stops, then the branch address.
pushBranches(skips, queue, refOpcode, next) ==
  queue \o (IF "STOP" \notin refOpcode.flags THEN <<skippedAddress(skips, next)>> ELSE <<>>)
        \o <<refOpcode.value>>

RECURSIVE decodeWalk(_, _, _, _)
\* One pass of the while (true) loop of createNodeForAddress behind the marking of
\* the bytes of refOpcode, decoded at addr64k: flowAddr is what
\* searchAddrWithAttribute found before the marking, next the following address.
\* w holds the graph g, the attributes, allBranchAddresses (queue), the notes
\* rejected and walked, and hung: the skip loop never ended.
walkOn(mem, skips, w, addr64k, refOpcode, flowAddr, next) ==
  IF flowAddr # <<>>
    THEN [w EXCEPT !.g.comments = addAmbiguousComment(@, addr64k, flowAddr[1])]
  ELSE IF "BRANCH_ADDRESS" \in refOpcode.flags
    THEN IF "STOP" \notin refOpcode.flags /\ skipLoops(skips, next)
           THEN [w EXCEPT !.hung = TRUE]
           ELSE [w EXCEPT !.queue = pushBranches(skips, @, refOpcode, next)]
  ELSE IF next > 65535
    THEN w
  ELSE IF "RET" \in refOpcode.flags /\ "CONDITIONAL" \in refOpcode.flags
    THEN [w EXCEPT !.queue = Append(@, next)]
  ELSE IF "FLOW_ANALYZED" \in getAttributeAt(w.attrs, next) \/ "STOP" \in refOpcode.flags
    THEN w
  ELSE decodeWalk(mem, skips, w, next)

\* What pass 1 notes of a decode, for the properties: the entry address of the
\* createNodeForAddress call, the address, the opcode, whether the decode is the
\* first of its node, what searchAddrWithAttribute finds before the marking, and how
\* many branch addresses were queued before.
walkedOpcode(w, addr64k, refOpcode) ==
  [entry |-> w.queue[1], address |-> addr64k, opcode |-> refOpcode,
   first |-> addr64k \in DOMAIN w.g.nodes,
   flowAddr |-> searchAddrWithAttribute(w.attrs, {"FLOW_ANALYZED"}, addr64k + 1,
                                        refOpcode.length - 1),
   queued |-> Len(w.queue)]

\* One pass of the while (true) loop for the opcode refOpcode decoded at addr64k.
walkOpcode(mem, skips, w, addr64k, refOpcode) ==
  walkOn(mem, skips, [w EXCEPT !.attrs = markOpcode(@, addr64k, refOpcode.length),
                               !.walked = Append(@, walkedOpcode(w, addr64k, refOpcode))],
         addr64k, refOpcode,
         searchAddrWithAttribute(w.attrs, {"FLOW_ANALYZED"}, addr64k + 1, refOpcode.length - 1),
         addr64k + refOpcode.length)

\* The while (true) loop of createNodeForAddress from addr64k.
decodeWalk(mem, skips, w, addr64k) ==
  walkOpcode(mem, skips, w, addr64k, getOpcodeAt(mem, addr64k))

\* An iteration that makes a node at every analysed candidate.
visitWithAnalyzed(mem, skips, w, addr64k, memAttr) ==
  IF addr64k \in DOMAIN w.g.nodes THEN w
  ELSE IF "FLOW_ANALYZED" \in memAttr THEN [w EXCEPT !.g = createNodeInMap(@, addr64k)]
  ELSE IF "ASSIGNED" \notin memAttr THEN w
  ELSE decodeWalk(mem, skips, [w EXCEPT !.g = createNodeInMap(@, addr64k)], addr64k)

\* One iteration of the for loop of createNodeForAddress, for the candidate addr64k
\* with the attributes memAttr.
visitWith(mem, skips, w, addr64k, memAttr) ==
  IF addr64k \in DOMAIN w.g.nodes THEN w
  ELSE IF "FLOW_ANALYZED" \in memAttr
    THEN IF "CODE_FIRST" \in memAttr
           THEN [w EXCEPT !.g = createNodeInMap(@, addr64k)]
           ELSE [w EXCEPT !.g.comments = addAmbiguousComment(@, addr64k, addr64k),
                          !.rejected = Append(@, addr64k)]
  ELSE IF "ASSIGNED" \notin memAttr THEN w
  ELSE decodeWalk(mem, skips, [w EXCEPT !.g = createNodeInMap(@, addr64k)], addr64k)

\* One iteration of the for loop of createNodeForAddress, for the candidate addr64k.
visitCandidate(mem, skips, w, addr64k) ==
  visitWith(mem, skips, w, addr64k, getAttributeAt(w.attrs, addr64k))

RECURSIVE visitAll(_, _, _, _)
\* The for loop of createNodeForAddress from index i (1-based) of allBranchAddresses.
visitAll(mem, skips, w, i) ==
  IF w.hung \/ i > Len(w.queue) THEN w
  ELSE visitAll(mem, skips, visitCandidate(mem, skips, w, w.queue[i]), i + 1)

\* SmartDisassembler.createNodeForAddress(address64k).
createNodeForAddress(mem, skips, w, address64k) ==
  visitAll(mem, skips, [w EXCEPT !.queue = <<address64k>>], 1)

\* One iteration of the for loop of createNodes, for the entry address addr64k.
createNodesStep(mem, skips, w, addr64k) ==
  LET memAttr == getAttributeAt(w.attrs, addr64k)
  IN IF "FLOW_ANALYZED" \in memAttr
       THEN IF "CODE_FIRST" \notin memAttr
              THEN [w EXCEPT !.g.comments = addAmbiguousComment(@, addr64k, addr64k),
                             !.rejected = Append(@, addr64k)]
              ELSE w
       ELSE createNodeForAddress(mem, skips, w, addr64k)

RECURSIVE sortedInsert(_, _)
sortedInsert(s, x) ==
  IF s = <<>> THEN <<x>>
  ELSE IF x < Head(s) THEN <<x>> \o s
  ELSE <<Head(s)>> \o sortedInsert(Tail(s), x)

RECURSIVE sortAscending(_)
\* [...addresses].sort((a, b) => a - b); the sort is stable.
sortAscending(s) ==
  IF s = <<>> THEN <<>> ELSE sortedInsert(sortAscending(SubSeq(s, 1, Len(s) - 1)), s[Len(s)])

(***************************************************************************)
(* Pass 1b: createNodesForLabels.                                          *)
(***************************************************************************)
\* this.otherLabels.set(addr64k, label) and the like: a map with one entry set.
mapSet(m, key, value) == [a \in DOMAIN m \cup {key} |-> IF a = key THEN value ELSE m[a]]

\* An iteration that takes every address marked CODE for a code label.
createNodeForLabelInCode(attrs, s, pair) ==
  IF "CODE" \in getAttributeAt(attrs, pair[1])
    THEN [s EXCEPT !.g = [createNodeInMap(s.g, pair[1]) EXCEPT !.nodes[pair[1]].label = pair[2]]]
    ELSE [s EXCEPT !.otherLabels = mapSet(@, pair[1], pair[2])]

\* One iteration of the for loop of createNodesForLabels, for the pair <<addr64k, label>>.
\* s holds the graph g and otherLabels.
createNodeForLabel(attrs, s, pair) ==
  LET addr64k == pair[1]
      label == pair[2]
  IN IF "CODE_FIRST" \in getAttributeAt(attrs, addr64k)
       THEN LET g1 == IF addr64k \in DOMAIN s.g.nodes THEN s.g ELSE createNodeInMap(s.g, addr64k)
            IN [s EXCEPT !.g = [g1 EXCEPT !.nodes[addr64k].label = label]]
       ELSE [s EXCEPT !.otherLabels = mapSet(@, addr64k, label)]

(***************************************************************************)
(* Pass 2: fillNodes / fillNode / getNodeForFill.                          *)
(***************************************************************************)
\* SmartDisassembler.getNodeForFill(originAddress, targetAddress): the graph
\* afterwards and the node returned.
getNodeForFill(attrs, g, originAddress, targetAddress) ==
  IF targetAddress \in DOMAIN g.nodes
    THEN [g |-> g, node |-> <<g.run, "n", targetAddress>>]
    ELSE [g |-> [g EXCEPT
                   !.extraNodes = Append(@, NewAsmNode(targetAddress)),
                   !.comments =
                     IF "ASSIGNED" \in getAttributeAt(attrs, targetAddress)
                       THEN addAmbiguousComment(@, originAddress, targetAddress)
                       ELSE addBranchToUnassignedMemory(@, originAddress, targetAddress)],
          node |-> <<g.run, "p", Len(g.extraNodes) + 1>>]

\* A branch edge without its entry in the predecessors of the target.
connectBranchOneWay(g, from, to) ==
  withNode(g, from, [nodeOf(g, from) EXCEPT !.branchNodes = Append(@, to)])

\* from.branchNodes.push(to); to.predecessors.push(from).
connectBranch(g, from, to) ==
  LET g1 == withNode(g, from, [nodeOf(g, from) EXCEPT !.branchNodes = Append(@, to)])
  IN withNode(g1, to, [nodeOf(g1, to) EXCEPT !.predecessors = Append(@, from)])

\* from.callee = to; to.callers.push(from).
connectCall(g, from, to) ==
  LET g1 == withNode(g, from, [nodeOf(g, from) EXCEPT !.callee = <<to>>])
  IN withNode(g1, to, [nodeOf(g1, to) EXCEPT !.callers = Append(@, from)])

\* new SkipPseudoOpcode(data) for skip bytes of data.
SkipPseudoOpcode(skip) ==
  [NewOpcode("SkipPseudoOpcode", 0, "SKIP", {}, "NONE", skip, 0) EXCEPT !.code = -1]

RECURSIVE skipBytes(_, _, _)
\* The skip loop of fillNode: a pseudo instruction per configured skip, addr64k += skip.
skipBytes(skips, instructions, addr64k) ==
  IF getSkipForAddress(skips, addr64k) # 0
    THEN skipBytes(skips,
                   Append(instructions, SkipPseudoOpcode(getSkipForAddress(skips, addr64k))),
                   addr64k + getSkipForAddress(skips, addr64k))
    ELSE [instructions |-> instructions, addr64k |-> addr64k]

\* node.branchNodes.push(r.node); r.node.predecessors.push(node), for what
\* getNodeForFill returned.
connectBranchTo(r, self) == connectBranch(r.g, self, r.node)

\* The natural flow of a branch instruction behind the skip loop (sk): the edge to
\* the following node if addr64k < 0x10000; the graph and the address reached.
followSkipped(attrs, g, self, lastAddr64k, sk) ==
  [g |-> IF sk.addr64k < 65536
           THEN connectBranchTo(
                  getNodeForFill(attrs,
                                 withNode(g, self, [nodeOf(g, self) EXCEPT
                                                      !.instructions = sk.instructions]),
                                 lastAddr64k, Mask64k(sk.addr64k)),
                  self)
           ELSE withNode(g, self, [nodeOf(g, self) EXCEPT !.instructions = sk.instructions]),
   addr64k |-> sk.addr64k]

\* if (!(flags & OpcodeFlag.STOP)) { ... }: the skips and the following node.
naturalFlow(attrs, skips, g, self, flags, lastAddr64k, addr64k) ==
  IF "STOP" \notin flags
    THEN followSkipped(attrs, g, self, lastAddr64k,
                       skipBytes(skips, nodeOf(g, self).instructions, addr64k))
    ELSE [g |-> g, addr64k |-> addr64k]

\* The call or branch edge to the node r.node that getNodeForFill returned.
connectTarget(flags, r, self) ==
  IF "CALL" \in flags THEN connectCall(r.g, self, r.node) ELSE connectBranch(r.g, self, r.node)

\* finishBranch with the length counted one byte too far.
finishBranchInclusive(g, self, flags, addr64k) ==
  withNode(g, self, [nodeOf(g, self) EXCEPT !.stop = IF "STOP" \in flags THEN TRUE ELSE @,
                                            !.length = addr64k - nodeOf(g, self).start + 1])

\* node.stop for a stopping branch, and node.length = addr64k - node.start.
finishBranch(g, self, flags, addr64k) ==
  withNode(g, self, [nodeOf(g, self) EXCEPT !.stop = IF "STOP" \in flags THEN TRUE ELSE @,
                                            !.length = addr64k - nodeOf(g, self).start])

\* The branch of a branch instruction behind its natural flow f.
branchFrom(attrs, self, opcode, lastAddr64k, f) ==
  finishBranch(connectTarget(opcode.flags,
                             getNodeForFill(attrs, f.g, lastAddr64k, opcode.value), self),
               self, opcode.flags, f.addr64k)

\* The branch part of fillNode (flags & BRANCH_ADDRESS), for the instruction opcode
\* at lastAddr64k, the walk standing at addr64k behind it; sets the length too.
fillBranch(attrs, skips, g, self, opcode, lastAddr64k, addr64k) ==
  branchFrom(attrs, self, opcode, lastAddr64k,
             naturalFlow(attrs, skips, g, self, opcode.flags, lastAddr64k, addr64k))

\* The address a data reference is collected under: back to the start of the
\* instruction when it points into CODE.
dataReference(attrs, value) ==
  IF "CODE" \in getAttributeAt(attrs, value) THEN getAddressForCodeFirst(attrs, value)
  ELSE value

\* node.dataReferences.push(adjAddr64k) for a DATA_LBL; node.instructions.push(opcode).
withInstruction(attrs, node, opcode) ==
  [node EXCEPT !.dataReferences = IF opcode.valueType = "DATA_LBL"
                                    THEN Append(@, dataReference(attrs, opcode.value)) ELSE @,
               !.instructions = Append(@, opcode)]

\* node.isSubroutine for RET, node.stop for STOP (no branch address).
withFlags(node, flags) ==
  [node EXCEPT !.isSubroutine = IF "RET" \in flags THEN TRUE ELSE @,
               !.stop = IF "STOP" \in flags THEN TRUE ELSE @]

\* node.length = addr64k - node.start.
setLength(g, self, addr64k) ==
  withNode(g, self, [nodeOf(g, self) EXCEPT !.length = addr64k - nodeOf(g, self).start])

RECURSIVE fillFrom(_, _, _, _, _, _)
\* An instruction without branch address, decoded at lastAddr64k, the walk standing
\* at addr64k behind it: stop, end of memory, next node, ambiguity, or go on.
fillPlain(mem, attrs, skips, g, self, lastAddr64k, opcode, addr64k) ==
  IF "STOP" \in opcode.flags \/ addr64k > 65535
    THEN setLength(g, self, addr64k)
  ELSE IF addr64k \in DOMAIN g.nodes
    THEN setLength(connectBranch(g, self, <<g.run, "n", addr64k>>), self, addr64k)
  ELSE IF searchAddrWithAttribute(attrs, {"CODE_FIRST"}, lastAddr64k + 1,
                                  opcode.length - 1) # <<>>
    THEN setLength(g, self, addr64k)
  ELSE fillFrom(mem, attrs, skips, g, self, addr64k)

\* One pass of the while (true) loop of fillNode behind instructions.push(opcode).
fillStep(mem, attrs, skips, g, self, lastAddr64k, opcode, addr64k) ==
  IF "BRANCH_ADDRESS" \in opcode.flags
    THEN fillBranch(attrs, skips, g, self, opcode, lastAddr64k, addr64k)
    ELSE fillPlain(mem, attrs, skips,
                   withNode(g, self, withFlags(nodeOf(g, self), opcode.flags)),
                   self, lastAddr64k, opcode, addr64k)

\* One pass of the while (true) loop of fillNode for the clone opcode of the
\* instruction at addr64k.
fillOpcode(mem, attrs, skips, g, self, addr64k, opcode) ==
  fillStep(mem, attrs, skips,
           withNode(g, self, withInstruction(attrs, nodeOf(g, self), opcode)),
           self, addr64k, opcode, addr64k + opcode.length)

\* The while (true) loop of fillNode for the table node self, standing at addr64k,
\* and the final node.length = addr64k - node.start.
fillFrom(mem, attrs, skips, g, self, addr64k) ==
  fillOpcode(mem, attrs, skips, g, self, addr64k, getOpcodeAt(mem, addr64k))

\* SmartDisassembler.fillNode(node) for the table node at addr64k.
fillNode(mem, attrs, skips, g, addr64k) ==
  fillFrom(mem, attrs, skips, g, <<g.run, "n", addr64k>>, addr64k)

(***************************************************************************)
(* markSubroutines.                                                        *)
(***************************************************************************)
\* The nodes reachable from the nodes of refs by following edges(node) zero or more times.
RECURSIVE closure(_, _, _)
closure(g, refs, field) ==
  LET more == refs \cup UNION {{nodeOf(g, r)[field][i] : i \in DOMAIN nodeOf(g, r)[field]} : r \in refs}
  IN IF more = refs THEN refs ELSE closure(g, more, field)

\* A marking of the node ref alone, without its predecessors.
markPredecessorsAsSubroutineDirect(g, ref) ==
  withNode(g, ref, [nodeOf(g, ref) EXCEPT !.isSubroutine = TRUE])

\* AsmNode.markPredecessorsAsSubroutine() on the node ref: the node and all its
\* transitive predecessors become subroutine nodes.
markPredecessorsAsSubroutine(g, ref) ==
  LET marked == closure(g, {ref}, "predecessors")
  IN [g EXCEPT !.nodes = [a \in DOMAIN @ |->
                            IF <<g.run, "n", a>> \in marked
                              THEN [@[a] EXCEPT !.isSubroutine = TRUE] ELSE @[a]],
               !.extraNodes = [i \in DOMAIN @ |->
                                 IF <<g.run, "p", i>> \in marked
                                   THEN [@[i] EXCEPT !.isSubroutine = TRUE] ELSE @[i]]]

RECURSIVE markAllPredecessors(_, _, _)
\* for (const predec of node.predecessors) predec.markPredecessorsAsSubroutine().
markAllPredecessors(g, predecessors, i) ==
  IF i > Len(predecessors) THEN g
  ELSE markAllPredecessors(markPredecessorsAsSubroutine(g, predecessors[i]), predecessors, i + 1)

\* One iteration of the loop of markSubroutines, for the table node at addr64k.
markSubroutine(g, addr64k) ==
  LET node == g.nodes[addr64k]
  IN IF node.isSubroutine THEN markAllPredecessors(g, node.predecessors, 1)
     ELSE IF Len(node.callers) > 0 THEN [g EXCEPT !.nodes[addr64k].isSubroutine = TRUE]
     ELSE g

RECURSIVE markSubroutinesFrom(_, _)
\* SmartDisassembler.markSubroutines(): the table nodes in insertion order.
markSubroutinesFrom(g, i) ==
  IF i > Len(g.nodeOrder) THEN g
  ELSE markSubroutinesFrom(markSubroutine(g, g.nodeOrder[i]), i + 1)

markSubroutines(g) == markSubroutinesFrom(g, 1)

(***************************************************************************)
(* partitionBlocks.                                                        *)
(***************************************************************************)
\* Branches that hold the node alone.
getBranchesOfNode(g, ref) == {ref}

\* AsmNode.getBranchesRecursive(branches): the node and every node reachable
\* from it over branchNodes.
getBranchesRecursive(g, ref) == closure(g, {ref}, "branchNodes")

\* blocksFill that leaves out the first address of the range.
blocksFillFromSecond(blks, blockNode, start, end) ==
  LET range == {a \in (start + 1) .. (end - 1) : a >= 0 /\ a < 65536}
  IN [a \in DOMAIN blks \cup range |-> IF a \in range THEN blockNode ELSE blks[a]]

\* this.blocks.fill(blockNode, start, end): the array has 0x10000 elements.
blocksFill(blks, blockNode, start, end) ==
  LET range == {a \in start .. (end - 1) : a >= 0 /\ a < 65536}
  IN [a \in DOMAIN blks \cup range |-> IF a \in range THEN blockNode ELSE blks[a]]

RECURSIVE partitionFrom(_, _, _, _)
\* The loop of partitionBlocks over the sorted nodes from index i.  p holds the
\* blocks array, blockNode, blockBranches and addr (<<>> while undefined).
partitionFrom(g, sortedNodes, p, i) ==
  IF i > Len(sortedNodes) THEN p.blocks
  ELSE LET ref == <<g.run, "n", sortedNodes[i]>>
           node == nodeOf(g, ref)
           starts == \/ p.addr # <<node.start>>
                     \/ Len(node.callers) > 0
                     \/ ref \notin p.blockBranches
           blockNode == IF starts THEN ref ELSE p.blockNode
           addr == IF starts THEN node.start ELSE p.addr[1]
       IN partitionFrom(g, sortedNodes,
                        [blocks |-> blocksFill(p.blocks, blockNode, addr, addr + node.length),
                         blockNode |-> blockNode,
                         blockBranches |-> IF starts THEN getBranchesRecursive(g, ref)
                                           ELSE p.blockBranches,
                         addr |-> <<addr + node.length>>],
                        i + 1)

\* SmartDisassembler.partitionBlocks(): the blocks array afterwards.
partitionBlocks(g, blks) ==
  partitionFrom(g, sortAscending(g.nodeOrder),
                [blocks |-> blks, blockNode |-> <<>>, blockBranches |-> {}, addr |-> <<>>], 1)

\* this.blocks[addr64k], as <<node>> or <<>> for undefined.
blockAt(blks, addr64k) == IF addr64k \in DOMAIN blks THEN <<blks[addr64k]>> ELSE <<>>

(***************************************************************************)
(* assignNodeLabels / assignLocalLabels / assignOpcodeReferenceLabels.     *)
(***************************************************************************)
\* The label prefixes of SmartDisassembler.
labelSubPrefix == "SUB_"
labelLblPrefix == "LBL_"
labelRstPrefix == "RST_"
labelDataLblPrefix == "DATA_"
labelCodePrefix == "CODE_"
labelLocalLabelPrefix == "L"
labelLocalLoopPrefix == "LOOP"

RECURSIVE decimalString(_)
\* Number to string, as in preLabel + this.labelLocalLabelPrefix + i.
decimalString(n) ==
  IF n < 10 THEN SubSeq(HexDigits, n + 1, n + 1)
  ELSE decimalString(n \div 10) \o SubSeq(HexDigits, (n % 10) + 1, (n % 10) + 1)

\* The node object a reference stands for: a node of the current graph g, or a
\* node left over from an earlier getFlowGraph call (hist).
nodeOfAny(g, hist, ref) == IF ref[1] = g.run THEN nodeOf(g, ref) ELSE nodeOf(hist[ref[1]], ref)

\* AsmNode.otherReference(): the node is referenced by a predecessor other than
\* the node that ends right before it (not the plain top-down flow).
otherReference(g, ref) ==
  LET node == nodeOf(g, ref)
  IN \E i \in DOMAIN node.predecessors :
       LET p == nodeOf(g, node.predecessors[i]) IN p.start + p.length # node.start

\* AsmNode.isLoopRoot(): the node is reached by a backward edge.
isLoopRoot(g, ref) ==
  LET node == nodeOf(g, ref)
  IN \E i \in DOMAIN node.predecessors : nodeOf(g, node.predecessors[i]).start >= node.start

RECURSIVE localWalk(_, _, _, _, _)
\* The while loop of assignLocalLabels(node): w holds localNodes, loopNodes and
\* whether an assertion failed; blockNode is the node the walk stands on.
localWalk(g, blks, node, blockNode, w) ==
  LET bn == nodeOf(g, blockNode)
      referenced == otherReference(g, blockNode) /\ bn.label = ""
      w1 == IF referenced /\ isLoopRoot(g, blockNode)
              THEN [w EXCEPT !.loopNodes = Append(@, blockNode)]
            ELSE IF referenced THEN [w EXCEPT !.localNodes = Append(@, blockNode)]
            ELSE w
      addr == bn.start + bn.length
  IN IF blockAt(blks, addr) # <<node>> THEN w1
     ELSE IF addr \notin DOMAIN g.nodes THEN [w1 EXCEPT !.thrown = TRUE]
     ELSE IF addr >= 65536 THEN w1
     ELSE localWalk(g, blks, node, <<g.run, "n", addr>>, w1)

\* listLabel that numbers every node by its place in the list, also where the
\* label is to carry the start address.
listLabelByIndex(node, i, prefix, suffix) ==
  CASE suffix = "index" -> prefix \o decimalString(i)
    [] suffix = "start" -> prefix \o decimalString(i)
    [] suffix = "none" -> prefix \o decimalString(i)

\* The label of the i-th node of a list: prefix and its number, prefix and the
\* hex of its start, or the prefix alone.
listLabel(node, i, prefix, suffix) ==
  CASE suffix = "index" -> prefix \o decimalString(i)
    [] suffix = "start" -> prefix \o getHexString(node.start, 4)
    [] suffix = "none" -> prefix

RECURSIVE setLabels(_, _, _, _, _)
\* for (const n of list) n.label = ..., from the i-th node of the list.
setLabels(g, list, i, prefix, suffix) ==
  IF i > Len(list) THEN g
  ELSE setLabels(withNode(g, list[i],
                          [nodeOf(g, list[i]) EXCEPT
                             !.label = listLabel(nodeOf(g, list[i]), i, prefix, suffix)]),
                 list, i + 1, prefix, suffix)

\* The second half of assignLocalLabels(node): the labels for the nodes the walk w
\* collected, under the label of node.
labelCollected(g, label, w) ==
  IF w.thrown THEN [g |-> g, thrown |-> TRUE]
  ELSE IF label # ""
    THEN [g |-> IF Len(w.loopNodes) = 1
                  THEN setLabels(setLabels(g, w.localNodes, 1,
                                           label \o "." \o labelLocalLabelPrefix, "index"),
                                 w.loopNodes, 1, label \o "." \o labelLocalLoopPrefix, "none")
                  ELSE setLabels(setLabels(g, w.localNodes, 1,
                                           label \o "." \o labelLocalLabelPrefix, "index"),
                                 w.loopNodes, 1, label \o "." \o labelLocalLoopPrefix, "index"),
          thrown |-> FALSE]
  ELSE [g |-> setLabels(setLabels(g, w.localNodes, 1, labelLblPrefix, "start"),
                        w.loopNodes, 1, labelLblPrefix, "start"),
        thrown |-> FALSE]

\* SmartDisassembler.assignLocalLabels(node): the graph afterwards, and whether an
\* assertion failed.
assignLocalLabels(g, blks, node) ==
  labelCollected(g, nodeOf(g, node).label,
                 localWalk(g, blks, node, node,
                           [localNodes |-> <<>>, loopNodes |-> <<>>, thrown |-> FALSE]))

\* globalLabel without the test for the RST addresses.
globalLabelNoRst(node, addr64k) ==
  IF node.isSubroutine
    THEN labelSubPrefix \o getHexString(addr64k, 4)
    ELSE labelLblPrefix \o getHexString(addr64k, 4)

\* The global label of assignNodeLabels for the block-leading node.
globalLabel(node, addr64k) ==
  IF node.isSubroutine
    THEN IF node.start - BitAnd(node.start, 56) # 0
           THEN labelSubPrefix \o getHexString(addr64k, 4)
           ELSE labelRstPrefix \o getHexString(addr64k, 2)
    ELSE labelLblPrefix \o getHexString(addr64k, 4)

\* assignNodeLabel that gives the global label also to a leading node without
\* callers and predecessors.
assignNodeLabelUnreferred(g, blks, addr64k) ==
  LET self == <<g.run, "n", addr64k>>
      node == g.nodes[addr64k]
      g1 == IF node.label = ""
              THEN [g EXCEPT !.nodes[addr64k].label = globalLabel(node, addr64k)]
              ELSE g
  IN IF blockAt(blks, addr64k) = <<self>>
       THEN assignLocalLabels(g1, blks, self)
       ELSE [g |-> g, thrown |-> FALSE]

\* One iteration of the loop of assignNodeLabels, for the table node at addr64k.
assignNodeLabel(g, blks, addr64k) ==
  LET self == <<g.run, "n", addr64k>>
      node == g.nodes[addr64k]
      g1 == IF node.label = "" /\ (Len(node.callers) > 0 \/ Len(node.predecessors) > 0)
              THEN [g EXCEPT !.nodes[addr64k].label = globalLabel(node, addr64k)]
              ELSE g
  IN IF blockAt(blks, addr64k) = <<self>>
       THEN assignLocalLabels(g1, blks, self)
       ELSE [g |-> g, thrown |-> FALSE]

\* A lookup that leaves otherLabels out.
knownLabelOutside(g, labelFunc, others, addr64k) ==
  IF addr64k \in DOMAIN labelFunc /\ labelFunc[addr64k] # "" THEN labelFunc[addr64k]
  ELSE IF addr64k \in DOMAIN g.nodes /\ g.nodes[addr64k].label # "" THEN g.nodes[addr64k].label
  ELSE ""

\* The label lookup of assignOpcodeReferenceLabels: funcGetLabel, then the node
\* label, then otherLabels ("" when there is none).
knownLabel(g, labelFunc, others, addr64k) ==
  IF addr64k \in DOMAIN labelFunc /\ labelFunc[addr64k] # "" THEN labelFunc[addr64k]
  ELSE IF addr64k \in DOMAIN g.nodes /\ g.nodes[addr64k].label # "" THEN g.nodes[addr64k].label
  ELSE IF addr64k \in DOMAIN others THEN others[addr64k]
  ELSE ""

\* The body of the inner loop of assignOpcodeReferenceLabels for one data reference.
\* s holds otherLabels and whether the assertion failed.
assignReferenceLabel(g, hist, attrs, blks, labelFunc, s, addr64k) ==
  LET blockNode == blockAt(blks, addr64k)
      blockLabel == nodeOfAny(g, hist, blockNode[1]).label
      hex == getHexString(addr64k, 4)
  IN IF s.thrown \/ knownLabel(g, labelFunc, s.otherLabels, addr64k) # "" THEN s
     ELSE IF "CODE" \in getAttributeAt(attrs, addr64k)
       THEN IF blockNode = <<>> THEN [s EXCEPT !.thrown = TRUE]
            ELSE [s EXCEPT !.otherLabels =
                    mapSet(@, addr64k,
                           IF blockLabel # "" THEN blockLabel \o "." \o labelCodePrefix \o hex
                           ELSE labelCodePrefix \o hex)]
     ELSE [s EXCEPT !.otherLabels = mapSet(@, addr64k, labelDataLblPrefix \o hex)]

RECURSIVE assignReferencesFrom(_, _, _, _, _, _, _, _)
\* The loops of assignOpcodeReferenceLabels from the j-th data reference of the
\* i-th table node (insertion order).
assignReferencesFrom(g, hist, attrs, blks, labelFunc, s, i, j) ==
  IF i > Len(g.nodeOrder) THEN s
  ELSE LET refs == g.nodes[g.nodeOrder[i]].dataReferences
       IN IF j > Len(refs)
            THEN assignReferencesFrom(g, hist, attrs, blks, labelFunc, s, i + 1, 1)
            ELSE assignReferencesFrom(g, hist, attrs, blks, labelFunc,
                   assignReferenceLabel(g, hist, attrs, blks, labelFunc, s, refs[j]), i, j + 1)

\* SmartDisassembler.assignOpcodeReferenceLabels().
assignOpcodeReferenceLabels(g, hist, attrs, blks, labelFunc, others) ==
  assignReferencesFrom(g, hist, attrs, blks, labelFunc,
                       [otherLabels |-> others, thrown |-> FALSE], 1, 1)


(***************************************************************************)
(* disassembleNodes / getLabelForAddress.                                  *)
(***************************************************************************)
\* SmartDisassembler.funcFormatAddressHex(addr64k): "$8AF2".
funcFormatAddressHex(addr64k) == "$" \o getHexString(addr64k, 4)

\* labelFor without the reduction to a local label.
labelForUnreduced(blockLabel, label, addr64k, suffixDiff) ==
  IF label # "" /\ blockLabel = <<>> THEN [valueName |-> "", thrown |-> TRUE]
  ELSE [valueName |->
          (IF label = "" THEN funcFormatAddressHex(addr64k) ELSE label)
          \o (IF suffixDiff # 0 THEN "+" \o decimalString(suffixDiff) ELSE ""),
        thrown |-> FALSE]

\* getLabelForAddress behind the label lookup: the reduction to a local label
\* under the label of the block node (<<label>>, or <<>> without block node), the
\* hex address when there is no label, and the "+N" suffix.
labelFor(blockLabel, label, addr64k, suffixDiff) ==
  IF label # "" /\ blockLabel = <<>> THEN [valueName |-> "", thrown |-> TRUE]
  ELSE [valueName |->
          (IF label = "" THEN funcFormatAddressHex(addr64k)
           ELSE IF blockLabel[1] # "" /\ startsWith(label, blockLabel[1] \o ".")
             THEN substringFrom(label, Len(blockLabel[1]))
           ELSE label)
          \o (IF suffixDiff # 0 THEN "+" \o decimalString(suffixDiff) ELSE ""),
        thrown |-> FALSE]

\* getLabelForAddress behind the address adjustment: the lookup at adjusted.
labelForAdjusted(g, labelFunc, others, blockLabel, addr64k, adjusted) ==
  labelFor(blockLabel, knownLabel(g, labelFunc, others, adjusted), adjusted, addr64k - adjusted)

\* getLabelForAddress that looks the address up as it is, also inside an instruction.
getLabelForAddressUnadjusted(g, attrs, labelFunc, others, blockLabel, addr64k) ==
  labelForAdjusted(g, labelFunc, others, blockLabel, addr64k, addr64k)

\* SmartDisassembler.getLabelForAddress(blockNode, addr64k).
getLabelForAddress(g, attrs, labelFunc, others, blockLabel, addr64k) ==
  labelForAdjusted(g, labelFunc, others, blockLabel, addr64k,
                   IF "CODE" \in getAttributeAt(attrs, addr64k)
                     THEN getAddressForCodeFirst(attrs, addr64k) ELSE addr64k)

\* Opcode.disassembleOpcode(funcGetLabel): whether it asks for the label of its value.
asksLabel(opcode) ==
  \/ opcode.valueType \in {"CODE_LBL", "CODE_LOCAL_LBL", "CODE_LOCAL_LOOP", "CODE_SUB",
                           "CODE_RST", "DATA_LBL"}
  \/ /\ opcode.valueType \notin {"NONE", "RELATIVE_INDEX", "NUMBER_BYTE"}
     /\ opcode.value >= 256

RECURSIVE disassembleFrom(_, _, _, _, _, _, _, _)
\* The loops of disassembleNodes from the j-th instruction of the i-th table node
\* (insertion order).  d holds the label texts so far and whether a call failed.
disassembleFrom(g, attrs, labelFunc, others, blks, d, i, j) ==
  IF i > Len(g.nodeOrder) \/ d.thrown THEN d
  ELSE IF j > Len(g.nodes[g.nodeOrder[i]].instructions)
    THEN disassembleFrom(g, attrs, labelFunc, others, blks, d, i + 1, 1)
  ELSE IF ~asksLabel(g.nodes[g.nodeOrder[i]].instructions[j])
    THEN disassembleFrom(g, attrs, labelFunc, others, blks, d, i, j + 1)
  ELSE LET value == g.nodes[g.nodeOrder[i]].instructions[j].value
           blockNode == blockAt(blks, g.nodeOrder[i])
           r == getLabelForAddress(g, attrs, labelFunc, others,
                                   IF blockNode = <<>> THEN <<>>
                                   ELSE <<nodeOf(g, blockNode[1]).label>>, value)
       IN disassembleFrom(g, attrs, labelFunc, others, blks,
                          [valueNames |-> Append(d.valueNames,
                                                 [node |-> g.nodeOrder[i], index |-> j,
                                                  addr64k |-> value,
                                                  valueName |-> r.valueName]),
                           thrown |-> r.thrown],
                          i, j + 1)

\* SmartDisassembler.disassembleNodes(): the label texts, in the order asked for.
disassembleNodes(g, attrs, labelFunc, others, blks) ==
  disassembleFrom(g, attrs, labelFunc, others, blks,
                  [valueNames |-> <<>>, thrown |-> FALSE], 1, 1)

(***************************************************************************)
(* getSubroutinesFor / getSubroutinesRecursive.                            *)
(***************************************************************************)
RECURSIVE calleesInOrder(_, _, _)
\* The nodes of refs by ascending or by descending start address.
calleesInOrder(g, descending, refs) ==
  IF refs = {} THEN <<>>
  ELSE LET first == CHOOSE x \in refs : \A y \in refs :
                      IF descending THEN nodeOf(g, x).start >= nodeOf(g, y).start
                      ELSE nodeOf(g, x).start <= nodeOf(g, y).start
       IN <<first>> \o calleesInOrder(g, descending, refs \ {first})

\* new Subroutine(node).callees: the callees of the nodes that are reached from node
\* over branchNodes.
subroutineCallees(g, descending, node) ==
  calleesInOrder(g, descending,
                 UNION {{nodeOf(g, r).callee[i] : i \in DOMAIN nodeOf(g, r).callee} :
                          r \in closure(g, {node}, "branchNodes")})

\* if (depth > maxDepth) maxDepth = depth, and the map the call left.
deeper(s, r) ==
  [maxDepth |-> IF r.depth > s.maxDepth THEN r.depth ELSE s.maxDepth, allSubs |-> r.allSubs]

\* return maxDepth + 1.
depthBehind(s) == [depth |-> s.maxDepth + 1, allSubs |-> s.allSubs]

RECURSIVE getSubroutinesRecursive(_, _, _, _)
RECURSIVE getSubroutinesOf(_, _, _, _, _)
\* The loop of getSubroutinesRecursive over sub.callees from index i; s holds maxDepth
\* and allSubs (the nodes that have a Subroutine).
getSubroutinesOf(g, descending, callees, s, i) ==
  IF i > Len(callees) THEN s
  ELSE getSubroutinesOf(g, descending, callees,
                        deeper(s, getSubroutinesRecursive(g, descending, callees[i], s.allSubs)),
                        i + 1)

\* SmartDisassembler.getSubroutinesRecursive(node, allSubs): the depth returned and
\* allSubs afterwards.
getSubroutinesRecursive(g, descending, node, allSubs) ==
  IF node \in allSubs THEN [depth |-> 0, allSubs |-> allSubs]
  ELSE depthBehind(getSubroutinesOf(g, descending, subroutineCallees(g, descending, node),
                                    [maxDepth |-> -1, allSubs |-> allSubs \cup {node}], 1))

RECURSIVE getSubroutinesFrom(_, _, _, _, _)
\* The loop of getSubroutinesFor over startNodes from index i.
getSubroutinesFrom(g, descending, startNodes, s, i) ==
  IF i > Len(startNodes) THEN s
  ELSE getSubroutinesFrom(g, descending, startNodes,
                          deeper(s, getSubroutinesRecursive(g, descending,
                                                            <<g.run, "n", startNodes[i]>>,
                                                            s.allSubs)),
                          i + 1)

\* SmartDisassembler.getSubroutinesFor(startNodes): the call, the depth and the nodes
\* of nodeSubs.
getSubroutinesFor(g, descending, startNodes) ==
  [startNodes |-> startNodes, descending |-> descending,
   result |-> getSubroutinesFrom(g, descending, startNodes,
                                 [maxDepth |-> 0, allSubs |-> {}], 1)]
(***************************************************************************)
(* The inputs: memory images, entry addresses, label pairs, skip table and *)
(* label function.                                                         *)
(***************************************************************************)
\* The longest generated memory image, and the number of getFlowGraph calls.
MaxImgLen == 4
MaxRuns == 2

\* The bytes of the generated images: NOP, JR e, LD A,(nn), RET, FD prefix (-3),
\* CP n (-2), RST 38h (-1).
GenBytes == {0, 24, 58, 201, 253, 254, 255}

\* The generated images end at the top of the address space.
GenOrigin == MAX_MEM_SIZE - MaxImgLen

Program(segments, entries, pairs, skips, labelFunc) ==
  [segments |-> segments, addresses |-> entries, labels |-> pairs,
   skipAddrs64k |-> skips, funcGetLabel |-> labelFunc]

\* Scenario A: CALL 8010h; RET  /  8010h: LD A,5; RET.
ScenarioA ==
  Program(<< <<32768, <<205, 16, 128, 201>>>>, <<32784, <<62, 5, 201>>>> >>,
          <<32768>>, <<>>, EmptyMap, EmptyMap)

\* Scenario A with a code label, a label inside the subroutine and a data label.
ScenarioALabels ==
  Program(<< <<32768, <<205, 16, 128, 201>>>>, <<32784, <<62, 5, 201>>>> >>,
          <<32768>>, << <<32784, "MYSUB">>, <<32786, "TAIL">>, <<36864, "BUFFER">> >>,
          EmptyMap, EmptyMap)

\* Scenario C: 8000h: LD A,18h; 8002h: JR 8001h (into the LD).
ScenarioC ==
  Program(<< <<32768, <<62, 24, 24, 253>>>> >>, <<32768>>, <<>>, EmptyMap, EmptyMap)

\* Scenario D: JP 9000h, nothing loaded at 9000h.
ScenarioD ==
  Program(<< <<32768, <<195, 0, 144>>>> >>, <<32768>>, <<>>, EmptyMap, EmptyMap)

\* CALL 9000h; RET, nothing loaded at 9000h.
ScenarioDCall ==
  Program(<< <<32768, <<205, 0, 144, 201>>>> >>, <<32768>>, <<>>, EmptyMap, EmptyMap)

\* FFFAh: JR NZ,FFFDh; FFFCh: NOP, nothing loaded behind it.
ScenarioDWalk ==
  Program(<< <<65530, <<32, 1, 0>>>> >>, <<65530>>, <<>>, EmptyMap, EmptyMap)

\* Scenario B: RST 20h; RET  /  0020h: RET.
ScenarioB ==
  Program(<< <<32768, <<231, 201>>>>, <<32, <<201>>>> >>, <<32768>>, <<>>, EmptyMap, EmptyMap)

\* 8000h: CALL 8010h; 8003h: CALL 8030h; 8006h: JR NZ,8003h; 8008h: RET /
\* 8010h: JR Z,8014h; 8012h: DEC A; 8013h: INC A; 8014h: DEC A; 8015h: JR NZ,8014h;
\* 8017h: JR NZ,8013h; 8019h: JR Z,801Ch; 801Bh: NOP; 801Ch: RET /
\* 8030h: LD A,5; 8032h: DEC A; 8033h: JR NZ,8032h; 8035h: RET.
ScenarioLocal ==
  Program(<< <<32768, <<205, 16, 128, 205, 48, 128, 32, 251, 201>>>>,
             <<32784, <<40, 2, 61, 60, 61, 32, 253, 32, 250, 40, 1, 0, 201>>>>,
             <<32816, <<62, 5, 61, 32, 253, 201>>>> >>,
          <<32768>>, <<>>, EmptyMap, EmptyMap)

\* 8000h: LD A,5; 8002h: DEC A; 8003h: JR NZ,8002h; 8005h: JR Z,8008h; 8007h: NOP; 8008h: RET.
ScenarioUnlabeled ==
  Program(<< <<32768, <<62, 5, 61, 32, 253, 40, 1, 0, 201>>>> >>,
          <<32768>>, <<>>, EmptyMap, EmptyMap)

\* 8000h: LD A,(8007h); 8003h: LD (9000h),A; 8006h: LD A,5; 8008h: LD HL,(800Bh);
\* 800Bh: RET, with a label known to funcGetLabel for 800Bh.
ScenarioData ==
  Program(<< <<32768, <<58, 7, 128, 50, 0, 144, 62, 5, 42, 11, 128, 201>>>> >>,
          <<32768>>, <<>>, EmptyMap, [a \in {32779} |-> "EXIT"])

\* 8000h: RST 8; 8001h: one byte skipped; 8002h: RET  /  0008h: RET.
ScenarioSkip ==
  Program(<< <<32768, <<207, 1, 201>>>>, <<8, <<201>>>> >>,
          <<32768>>, <<>>, [a \in {32769} |-> 1], EmptyMap)

\* Entry addresses out of order, one repeated, one inside an instruction, one unassigned.
ScenarioEntries ==
  Program(<< <<32768, <<62, 5, 192, 201>>>> >>,
          <<32770, 32768, 32769, 32770, 16384>>, <<>>, EmptyMap, EmptyMap)

\* 8000h: CALL 8010h; 8003h: LD A,(9000h); 8006h: JP 9000h  /  8010h: LD A,5; RET,
\* nothing loaded at 9000h.
ScenarioMixed ==
  Program(<< <<32768, <<205, 16, 128, 58, 0, 144, 195, 0, 144>>>>, <<32784, <<62, 5, 201>>>> >>,
          <<32768>>, <<>>, EmptyMap, EmptyMap)

\* 8000h: LD A,(8004h); 8003h: LD A,18h; 8005h: CALL 9000h; 8008h: JR 8004h (into the
\* LD A,18h), nothing loaded at 9000h.
ScenarioDegraded ==
  Program(<< <<32768, <<58, 4, 128, 62, 24, 205, 0, 144, 24, 250>>>> >>,
          <<32768>>, <<>>, EmptyMap, EmptyMap)

\* 8000h: RST 20h; 8001h: CALL 8010h; 8004h: JP NZ,8020h; 8007h: RET  /  0020h: RET  /
\* 8010h: RET  /  8020h: JR 8020h.
ScenarioGlobal ==
  Program(<< <<32768, <<231, 205, 16, 128, 194, 32, 128, 201>>>>, <<32, <<201>>>>,
             <<32784, <<201>>>>, <<32800, <<24, 254>>>> >>,
          <<32768>>, <<>>, EmptyMap, EmptyMap)

\* 8000h: RET; 8001h: RET, both entry addresses.
ScenarioTwoEntries ==
  Program(<< <<32768, <<201, 201>>>> >>, <<32768, 32769>>, <<>>, EmptyMap, EmptyMap)

\* 8000h: CALL 8010h; 8003h: LD A,(8011h); 8006h: LD A,(9000h); 8009h: CALL 8020h;
\* 800Ch: JP 9100h  /  8010h: LD A,5; 8012h: DEC A; 8013h: JR NZ,8012h; 8015h: RET  /
\* 8020h: RET, with a label pair for 8011h (inside the LD A,5) and a label known to
\* funcGetLabel for 8010h; nothing loaded at 9000h and 9100h.
ScenarioRender ==
  Program(<< <<32768, <<205, 16, 128, 58, 17, 128, 58, 0, 144, 205, 32, 128, 195, 0, 145>>>>,
             <<32784, <<62, 5, 61, 32, 253, 201>>>>, <<32800, <<201>>>> >>,
          <<32768>>, << <<32785, "INNER">> >>, EmptyMap, [a \in {32784} |-> "EXT"])

\* 8000h: JR 8003h; 8002h: LD A,18h; 8003h: JR 8002h (the operand of the LD at 8002h
\* is the JR at 8003h, and both get decoded).
ScenarioOverlap ==
  Program(<< <<32768, <<24, 1, 62, 24, 253>>>> >>, <<32768>>, <<>>, EmptyMap, EmptyMap)

\* FFFEh: RST 8; FFFFh: RET, with a skip of 1 byte at FFFFh and a skip of FFFFh
\* bytes at 0000h.
ScenarioSkipWrap ==
  Program(<< <<65534, <<207, 201>>>> >>, <<65534>>, <<>>,
          [a \in {65535, 0} |-> IF a = 0 THEN 65535 ELSE 1], EmptyMap)

\* 8000h: JR NZ,8004h; 8002h: RET NZ; 8003h: RET; 8004h: JR 8007h; 8006h: JR 8020h;
\* 8007h: JR 8006h (the operand of the JR at 8006h is the JR at 8007h).
ScenarioWalk ==
  Program(<< <<32768, <<32, 2, 192, 201, 24, 1, 24, 24, 253>>>> >>,
          <<32768>>, <<>>, EmptyMap, EmptyMap)

\* FFFEh: NOP; FFFFh: RET NZ, the last byte of the address space.
ScenarioRetEnd ==
  Program(<< <<65534, <<0, 192>>>> >>, <<65534>>, <<>>, EmptyMap, EmptyMap)

\* 8000h: CALL 8003h; 8003h: JR NZ,8007h; 8005h: DEC A; 8006h: RET; 8007h: JP 8005h;
\* 800Ah: RET, the second entry address.
ScenarioBlocks ==
  Program(<< <<32768, <<205, 3, 128, 32, 2, 61, 201, 195, 5, 128, 201>>>> >>,
          <<32768, 32778>>, <<>>, EmptyMap, EmptyMap)

\* 8000h: CALL 8010h; 8003h: RET  /  8010h: LD A,5; 8012h: DEC A; 8013h: JR NZ,8012h;
\* 8015h: JR Z,8010h; 8017h: JP 8020h  /  8020h: RET, with a label pair that names
\* 8020h like a local label of the subroutine at 8010h.
ScenarioForeignLocal ==
  Program(<< <<32768, <<205, 16, 128, 201>>>>,
             <<32784, <<62, 5, 61, 32, 253, 40, 249, 195, 32, 128>>>>,
             <<32800, <<201>>>> >>,
          <<32768>>, << <<32800, "SUB_8010.EXIT">> >>, EmptyMap, EmptyMap)

\* 8000h: CALL 8010h; 8003h: CALL 8020h; 8006h: RET  /  8010h: CALL 8030h; 8013h: RET  /
\* 8020h: CALL 8010h; 8023h: RET  /  8030h: RET.
ScenarioDepth ==
  Program(<< <<32768, <<205, 16, 128, 205, 32, 128, 201>>>>,
             <<32784, <<205, 48, 128, 201>>>>, <<32800, <<205, 16, 128, 201>>>>,
             <<32816, <<201>>>> >>,
          <<32768>>, <<>>, EmptyMap, EmptyMap)

\* FFFEh: RET NZ, with nothing loaded at FFFFh.
ScenarioRetGap ==
  Program(<< <<65534, <<192>>>> >>, <<65534>>, <<>>, EmptyMap, EmptyMap)

\* 8000h: CALL 8010h; 8003h: LD A,(9000h); 8006h: LD A,(9100h); 8009h: RET  /
\* 8010h: LD A,5; 8012h: DEC A; 8013h: JR NZ,8012h; 8015h: RET, with label pairs for
\* the subroutine, for the loop in it and for 9000h; nothing loaded at 9000h and 9100h.
ScenarioKeptLabels ==
  Program(<< <<32768, <<205, 16, 128, 58, 0, 144, 58, 0, 145, 201>>>>,
             <<32784, <<62, 5, 61, 32, 253, 201>>>> >>,
          <<32768>>, << <<32784, "MYSUB">>, <<32786, "AGAIN">>, <<36864, "BUFFER">> >>,
          EmptyMap, EmptyMap)

Scenarios ==
  {ScenarioA, ScenarioALabels, ScenarioB, ScenarioC, ScenarioD, ScenarioDCall,
   ScenarioDWalk, ScenarioLocal, ScenarioUnlabeled, ScenarioData, ScenarioSkip,
   ScenarioEntries, ScenarioMixed, ScenarioDegraded, ScenarioGlobal,
   ScenarioTwoEntries, ScenarioRender, ScenarioOverlap,
   ScenarioSkipWrap, ScenarioWalk, ScenarioRetEnd,
   ScenarioBlocks, ScenarioForeignLocal, ScenarioDepth,
   ScenarioRetGap, ScenarioKeptLabels}

\* The generated programs: every image of 1..MaxImgLen bytes over GenBytes, loaded
\* at GenOrigin and entered at GenOrigin.
Generated ==
  {Program(<< <<GenOrigin, bytes>> >>, <<GenOrigin>>, <<>>, EmptyMap, EmptyMap) :
     bytes \in UNION {[1..n -> GenBytes] : n \in 1..MaxImgLen}}

Programs == Scenarios \cup Generated

RECURSIVE loadBytes(_, _, _)
\* memory.setMemory(origin, bytes) for the segments from index i: the bytes.
loadBytes(mem, segments, i) ==
  IF i > Len(segments) THEN mem
  ELSE loadBytes(setMemoryBytes(mem, segments[i][1], segments[i][2]), segments, i + 1)

RECURSIVE loadAttr(_, _, _)
\* memory.setMemory(origin, bytes) for the segments from index i: the attributes.
loadAttr(attrs, segments, i) ==
  IF i > Len(segments) THEN attrs
  ELSE loadAttr(setMemoryAttr(attrs, segments[i][1], segments[i][2]), segments, i + 1)

(***************************************************************************)
(* The state.                                                              *)
(***************************************************************************)
VARIABLES
  memory,        \* BaseMemory.memory: the bytes, by address (0 where absent)
  memoryAttr,    \* Memory.memoryAttr: the flags, by address
  addresses,     \* the entry addresses given to getFlowGraph
  labels,        \* the <<address, label>> pairs given to getFlowGraph
  skipAddrs64k,  \* SmartDisassembler.skipAddrs64k
  funcGetLabel,  \* SmartDisassembler.funcGetLabel, as a map (no entry: undefined)
  nodes,         \* SmartDisassembler.nodes: address -> AsmNode
  nodeOrder,     \* the insertion order of the keys of nodes
  extraNodes,    \* the AsmNodes created by getNodeForFill, outside nodes
  blocks,        \* SmartDisassembler.blocks: address -> reference of the block node
  otherLabels,   \* SmartDisassembler.otherLabels
  comments,      \* SmartDisassembler.comments.addrComments
  pc,            \* where getFlowGraph stands
  cursor,        \* the index of the loop pc stands in
  run,           \* the number of getFlowGraph calls begun
  history,       \* the graphs the earlier calls left (their node objects)
  rejected,      \* pass 1: the candidates turned down as misaligned, in order
  walked,        \* pass 1: the decodes of the walks, in order
  allBranchAddresses,  \* pass 1: the list the last createNodeForAddress call left
  objs,          \* the value fields written into the shared opcode table objects
  decoded,       \* decoder: the decodes so far, each with what it returned
  opcode,        \* decoder: the object the last decode returned
  valueNames,    \* disassembleNodes: the label texts put into the instructions
  subroutines    \* getSubroutinesFor: the last call and what it returned, or <<>>

vars ==
  <<memory, memoryAttr, addresses, labels, skipAddrs64k, funcGetLabel, nodes, nodeOrder,
    extraNodes, blocks, otherLabels, comments, pc, cursor, run, history, rejected,
    walked, allBranchAddresses, objs, decoded, opcode, valueNames, subroutines>>

inputVars == <<memory, addresses, labels, skipAddrs64k, funcGetLabel>>
decodeVars == <<objs, decoded, opcode>>
renderVars == <<valueNames, subroutines>>
walkVars == <<walked, allBranchAddresses>>

\* The graph the disassembler holds.
Graph ==
  [run |-> run, nodes |-> nodes, nodeOrder |-> nodeOrder, extraNodes |-> extraNodes,
   comments |-> comments]

setGraph(g) ==
  /\ nodes' = g.nodes
  /\ nodeOrder' = g.nodeOrder
  /\ extraNodes' = g.extraNodes
  /\ comments' = g.comments

\* The state after a step of pass 1 that left w.
setPass1(w) ==
  /\ setGraph(w.g)
  /\ memoryAttr' = w.attrs
  /\ rejected' = w.rejected
  /\ walked' = w.walked
  /\ allBranchAddresses' = w.queue
  /\ pc' = IF w.hung THEN "hung" ELSE pc

\* The state after assignLocalLabels left r: the labels, or the failed assertion.
setLabelled(r) ==
  /\ setGraph(r.g)
  /\ pc' = IF r.thrown THEN "thrown" ELSE pc

\* The state after assignOpcodeReferenceLabels left s.
setReferenced(s) ==
  /\ otherLabels' = s.otherLabels
  /\ pc' = IF s.thrown THEN "thrown" ELSE "done"

Init ==
  \E p \in Programs :
    /\ memory = loadBytes(EmptyMap, p.segments, 1)
    /\ memoryAttr = loadAttr(EmptyMap, p.segments, 1)
    /\ addresses = p.addresses
    /\ labels = p.labels
    /\ skipAddrs64k = p.skipAddrs64k
    /\ funcGetLabel = p.funcGetLabel
    /\ nodes = EmptyMap
    /\ nodeOrder = <<>>
    /\ extraNodes = <<>>
    /\ blocks = EmptyMap
    /\ otherLabels = EmptyMap
    /\ comments = EmptyMap
    /\ pc = "idle"
    /\ cursor = 1
    /\ run = 0
    /\ history = <<>>
    /\ rejected = <<>>
    /\ walked = <<>>
    /\ allBranchAddresses = <<>>
    /\ objs = NoObjs
    /\ decoded = <<>>
    /\ opcode = <<>>
    /\ valueNames = <<>>
    /\ subroutines = <<>>

(***************************************************************************)
(* getFlowGraph, step by step.                                             *)
(***************************************************************************)
\* What a getFlowGraph call left: the graph, otherLabels, and the arguments.
Left ==
  Graph @@ [otherLabels |-> otherLabels, addresses |-> addresses, labels |-> labels]

\* The instruction starts the analysis before found.
codeFirsts(attrs) == {a \in DOMAIN attrs : a < MAX_MEM_SIZE /\ "CODE_FIRST" \in attrs[a]}

\* The arguments of the next getFlowGraph call: those of the program at first;
\* later the same again, the highest instruction start found so far as the only
\* entry address, or the same entry addresses without label pairs.
Calls ==
  {[addresses |-> addresses, labels |-> labels]}
  \cup {[addresses |-> <<a>>, labels |-> labels] :
          a \in {b \in codeFirsts(memoryAttr) : \A c \in codeFirsts(memoryAttr) : c <= b}}
  \cup (IF run = 0 THEN {} ELSE {[addresses |-> addresses, labels |-> <<>>]})

\* getFlowGraph(addresses, labels) up to the call of createNodes: the three
\* clear() calls and resetAttributeFlag(~ASSIGNED).  blocks is not cleared.  The
\* instructions, and the texts in them, go with the nodes.
GetFlowGraph ==
  /\ pc \in {"idle", "done", "thrown"}
  /\ run < MaxRuns
  /\ \E in \in Calls :
       /\ addresses' = in.addresses
       /\ labels' = in.labels
  /\ history' = IF run = 0 THEN history ELSE Append(history, Left)
  /\ setGraph([run |-> run + 1, nodes |-> EmptyMap, nodeOrder |-> <<>>,
               extraNodes |-> <<>>, comments |-> EmptyMap])
  /\ otherLabels' = EmptyMap
  /\ memoryAttr' = resetAttributeFlag(memoryAttr, {"ASSIGNED"})
  /\ run' = run + 1
  /\ rejected' = <<>>
  /\ walked' = <<>>
  /\ allBranchAddresses' = <<>>
  /\ pc' = "createNodes"
  /\ cursor' = 1
  /\ valueNames' = <<>>
  /\ subroutines' = <<>>
  /\ UNCHANGED <<memory, skipAddrs64k, funcGetLabel, blocks, decodeVars>>

\* createNodes(addresses): one iteration of its loop over the sorted addresses.
CreateNodes ==
  /\ pc = "createNodes"
  /\ cursor <= Len(addresses)
  /\ setPass1(createNodesStep(memory, skipAddrs64k,
                              [g |-> Graph, attrs |-> memoryAttr, queue |-> <<>>,
                               rejected |-> rejected, walked |-> walked, hung |-> FALSE],
                              sortAscending(addresses)[cursor]))
  /\ cursor' = cursor + 1
  /\ UNCHANGED <<inputVars, blocks, otherLabels, run, history, decodeVars, renderVars>>

\* createNodes returns; createNodesForLabels begins.
CreateNodesReturn ==
  /\ pc = "createNodes"
  /\ cursor > Len(addresses)
  /\ pc' = "createNodesForLabels"
  /\ cursor' = 1
  /\ UNCHANGED <<inputVars, memoryAttr, nodes, nodeOrder, extraNodes, blocks, otherLabels,
                 comments, run, history, rejected, walkVars,
                 decodeVars, renderVars>>

\* createNodesForLabels(labels): one iteration of its loop.
CreateNodesForLabels ==
  /\ pc = "createNodesForLabels"
  /\ cursor <= Len(labels)
  /\ LET s == createNodeForLabel(memoryAttr, [g |-> Graph, otherLabels |-> otherLabels],
                                 labels[cursor])
     IN /\ setGraph(s.g)
        /\ otherLabels' = s.otherLabels
  /\ cursor' = cursor + 1
  /\ UNCHANGED <<inputVars, memoryAttr, blocks, pc, run, history, rejected, walkVars,
                 decodeVars, renderVars>>

\* createNodesForLabels returns; fillNodes begins.
CreateNodesForLabelsReturn ==
  /\ pc = "createNodesForLabels"
  /\ cursor > Len(labels)
  /\ pc' = "fillNodes"
  /\ cursor' = 1
  /\ UNCHANGED <<inputVars, memoryAttr, nodes, nodeOrder, extraNodes, blocks, otherLabels,
                 comments, run, history, rejected, walkVars,
                 decodeVars, renderVars>>

\* fillNodes(): one iteration of its loop, fillNode(node).
FillNodes ==
  /\ pc = "fillNodes"
  /\ cursor <= Len(nodeOrder)
  /\ setGraph(fillNode(memory, memoryAttr, skipAddrs64k, Graph, nodeOrder[cursor]))
  /\ cursor' = cursor + 1
  /\ UNCHANGED <<inputVars, memoryAttr, blocks, otherLabels, pc, run, history, rejected,
                 walkVars, decodeVars, renderVars>>

\* fillNodes returns; markSubroutines() and partitionBlocks() run.
MarkSubroutines ==
  /\ pc = "fillNodes"
  /\ cursor > Len(nodeOrder)
  /\ LET g == markSubroutines(Graph)
     IN /\ setGraph(g)
        /\ blocks' = partitionBlocks(g, blocks)
  /\ pc' = "assignNodeLabels"
  /\ cursor' = 1
  /\ UNCHANGED <<inputVars, memoryAttr, otherLabels, run, history, rejected, walkVars,
                 decodeVars, renderVars>>

\* assignNodeLabels(): one iteration of its loop.
AssignNodeLabels ==
  /\ pc = "assignNodeLabels"
  /\ cursor <= Len(nodeOrder)
  /\ setLabelled(assignNodeLabel(Graph, blocks, nodeOrder[cursor]))
  /\ cursor' = cursor + 1
  /\ UNCHANGED <<inputVars, memoryAttr, blocks, otherLabels, run, history, rejected,
                 walkVars, decodeVars, renderVars>>

\* assignNodeLabels returns; assignOpcodeReferenceLabels() runs and getFlowGraph returns.
AssignOpcodeReferenceLabels ==
  /\ pc = "assignNodeLabels"
  /\ cursor > Len(nodeOrder)
  /\ setReferenced(assignOpcodeReferenceLabels(Graph, history, memoryAttr, blocks,
                                               funcGetLabel, otherLabels))
  /\ cursor' = 1
  /\ UNCHANGED <<inputVars, memoryAttr, nodes, nodeOrder, extraNodes, blocks, comments, run,
                 history, rejected, walkVars,
                 decodeVars, renderVars>>

\* disassembleNodes(), called on the graph getFlowGraph left.
DisassembleNodes ==
  /\ pc = "done"
  /\ LET d == disassembleNodes(Graph, memoryAttr, funcGetLabel, otherLabels, blocks)
     IN /\ valueNames' = d.valueNames
        /\ pc' = IF d.thrown THEN "thrown" ELSE pc
  /\ UNCHANGED <<inputVars, memoryAttr, nodes, nodeOrder, extraNodes, blocks, otherLabels,
                 comments, cursor, run, history, rejected, walkVars,
                 decodeVars, subroutines>>

\* The start nodes of the getSubroutinesFor calls: a table node that is an entry
\* address or has callers, or the entry addresses with a node, in ascending order.
StartNodes ==
  {<<a>> : a \in {b \in DOMAIN nodes : nodes[b].callers # <<>>
                                          \/ \E i \in DOMAIN addresses : addresses[i] = b}}
  \cup {SelectSeq(sortAscending(nodeOrder), LAMBDA b : \E i \in DOMAIN addresses : addresses[i] = b)}

\* getSubroutinesFor(startNodes), called on the graph getFlowGraph left; a Subroutine
\* lists its callees by ascending or by descending address.
GetSubroutinesFor ==
  /\ pc = "done"
  /\ subroutines = <<>>
  /\ \E startNodes \in StartNodes : \E descending \in BOOLEAN :
       subroutines' = <<getSubroutinesFor(Graph, descending, startNodes)>>
  /\ UNCHANGED <<inputVars, memoryAttr, nodes, nodeOrder, extraNodes, blocks, otherLabels,
                 comments, pc, cursor, run, history, rejected, walkVars,
                 decodeVars, valueNames>>

Next ==
  \/ GetSubroutinesFor
  \/ GetFlowGraph
  \/ CreateNodes
  \/ CreateNodesReturn
  \/ CreateNodesForLabels
  \/ CreateNodesForLabelsReturn
  \/ FillNodes
  \/ MarkSubroutines
  \/ AssignNodeLabels
  \/ AssignOpcodeReferenceLabels
  \/ DisassembleNodes

Spec == Init /\ [][Next]_vars


(***************************************************************************)
(* Properties of getFlowGraph.                                             *)
(***************************************************************************)
\* The number of elements of seq equal to x.
occurrences(seq, x) == Cardinality({i \in DOMAIN seq : seq[i] = x})

\* The number of diagnostics c recorded at address a, and recorded anywhere.
diagnosticsAt(a, c) == occurrences(commentsAt(comments, a), c)

diagnosticsOf(c) ==
  Cardinality({p \in UNION {{<<a, i>> : i \in DOMAIN comments[a]} : a \in DOMAIN comments} :
                 comments[p[1]][p[2]] = c})

\* The start addresses of the nodes a list of edges leads to.
edgeStarts(g, refs) == [i \in DOMAIN refs |-> nodeOf(g, refs[i]).start]

\* What a caller of getFlowGraph sees of the node table entry a of graph g.
nodeResult(g, a) ==
  [branchNodes |-> edgeStarts(g, g.nodes[a].branchNodes),
   predecessors |-> edgeStarts(g, g.nodes[a].predecessors),
   callee |-> edgeStarts(g, g.nodes[a].callee),
   callers |-> edgeStarts(g, g.nodes[a].callers),
   isSubroutine |-> g.nodes[a].isSubroutine,
   label |-> g.nodes[a].label]

\* What a caller of getFlowGraph sees of graph g: the node table by key, the
\* otherLabels table and the diagnostics.
flowGraphResult(g) ==
  [nodes |-> [a \in DOMAIN g.nodes |-> nodeResult(g, a)],
   otherLabels |-> g.otherLabels,
   comments |-> g.comments]

\* getFlowGraph has returned.
Returned == pc = "done"

\* The call under way has the arguments of the call before it.
SameCall ==
  /\ run >= 2
  /\ history[run - 1].addresses = addresses
  /\ history[run - 1].labels = labels

\* C1: a second getFlowGraph call with the same memory image, entry addresses, label
\* pairs and skip table leaves the same node-table keys, edges (by start address),
\* isSubroutine flags, node labels, otherLabels and diagnostics as the call before it.
C1_Idempotent ==
  (Returned /\ run >= 2 /\ SameCall)
    => flowGraphResult(history[run - 1]) = flowGraphResult(Left)

\* The second call has returned a graph with a call edge, a label, a diagnostic
\* and an otherLabels entry.
C1_Witness ==
  /\ Returned
  /\ run = 2
  /\ SameCall
  /\ \E a \in DOMAIN nodes : nodes[a].callee # <<>>
  /\ \E a \in DOMAIN nodes : nodes[a].label # ""
  /\ comments # EmptyMap
  /\ otherLabels # EmptyMap

\* The memory image and entry address of scenario A.
InScenarioA ==
  /\ memory = loadBytes(EmptyMap, ScenarioA.segments, 1)
  /\ addresses = <<32768>>

\* C2 as stated: in scenario A the node at 8000h has length 4 and its callee is the
\* node at 8010h.
C2_AsStated ==
  (InScenarioA /\ Returned)
    => /\ nodes[32768].length = 4
       /\ nodes[32768].callee = << <<run, "n", 32784>> >>

\* C2: in scenario A the node at 8000h has length 3 (the CALL alone), its callee is
\* the node at 8010h, and the RET at 8003h is a node of its own, the only branch node
\* of the node at 8000h.
C2_ScenarioA ==
  (InScenarioA /\ Returned)
    => /\ nodes[32768].length = 3
       /\ nodes[32768].callee = << <<run, "n", 32784>> >>
       /\ nodes[32768].branchNodes = << <<run, "n", 32771>> >>
       /\ nodes[32771].length = 1

\* Scenario A has been analysed.
C2_Witness ==
  /\ InScenarioA
  /\ Returned
  /\ nodes[32784].callers = << <<run, "n", 32768>> >>

\* The ambiguous-disassembly diagnostic that names address x.
ambiguous(x) == <<"ambiguous", x>>

\* The placeholder nodes (outside the node table) that start at x.
placeholdersAt(x) == {i \in DOMAIN extraNodes : extraNodes[i].start = x}

\* The candidates pass 1 turned down as misaligned.
Misaligned == {rejected[i] : i \in DOMAIN rejected}

\* C3 as stated: for a candidate that pass 1 found analysed but not at an instruction
\* start, the build produces exactly one ambiguous-disassembly diagnostic, at that
\* address, and no node at it.
C3_AsStated ==
  Returned =>
    \A x \in Misaligned :
      /\ x \notin DOMAIN nodes
      /\ diagnosticsOf(ambiguous(x)) = 1
      /\ diagnosticsAt(x, ambiguous(x)) = 1

\* C3: for such a candidate x the build records at x one ambiguous-disassembly
\* diagnostic per visit of pass 1, pass 2 records one more diagnostic naming x for
\* every edge it resolves to x (a placeholder node) while x is loaded, there is no
\* other ambiguous diagnostic naming x, and the node table has no node at x.
C3_ScenarioC ==
  Returned =>
    \A x \in Misaligned :
      /\ x \notin DOMAIN nodes
      /\ diagnosticsAt(x, ambiguous(x)) >= occurrences(rejected, x)
      /\ diagnosticsOf(ambiguous(x)) =
           occurrences(rejected, x)
             + (IF "ASSIGNED" \in getAttributeAt(memoryAttr, x)
                  THEN Cardinality(placeholdersAt(x)) ELSE 0)

\* A misaligned candidate in loaded memory that pass 2 met again as a branch target.
C3_Witness ==
  /\ Returned
  /\ \E x \in Misaligned :
       /\ "ASSIGNED" \in getAttributeAt(memoryAttr, x)
       /\ placeholdersAt(x) # {}
       /\ diagnosticsAt(x, ambiguous(x)) = 1
       /\ diagnosticsOf(ambiguous(x)) = 2

RECURSIVE lengthsBefore(_, _)
\* The summed lengths of the first k instructions of a node.
lengthsBefore(instructions, k) ==
  IF k = 0 THEN 0 ELSE lengthsBefore(instructions, k - 1) + instructions[k].length

\* The table nodes that end in an instruction with a branch address, and the index,
\* the opcode and the address of that instruction.
Branching == {a \in DOMAIN nodes : \E i \in DOMAIN nodes[a].instructions :
                                    "BRANCH_ADDRESS" \in nodes[a].instructions[i].flags}

branchIndex(a) ==
  CHOOSE i \in DOMAIN nodes[a].instructions : "BRANCH_ADDRESS" \in nodes[a].instructions[i].flags

branchOpcode(a) == nodes[a].instructions[branchIndex(a)]

branchAddress(a) == a + lengthsBefore(nodes[a].instructions, branchIndex(a) - 1)

\* The edges pass 2 draws from the branching instruction of node a: the branch or
\* call to its target and, unless it stops the flow or leaves the address space,
\* the fallthrough to the address behind the node.
branchEdges(a) ==
  {[target |-> branchOpcode(a).value,
    kind |-> IF "CALL" \in branchOpcode(a).flags THEN "call" ELSE "branch"]}
  \cup (IF "STOP" \notin branchOpcode(a).flags /\ a + nodes[a].length < 65536
          THEN {[target |-> a + nodes[a].length, kind |-> "branch"]} ELSE {})

\* Node a is connected, by an edge of that kind and its inverse entry, to the
\* placeholder node extraNodes[k].
connectedTo(a, kind, k) ==
  IF kind = "call"
    THEN /\ nodes[a].callee = << <<run, "p", k>> >>
         /\ occurrences(extraNodes[k].callers, <<run, "n", a>>) > 0
    ELSE /\ occurrences(nodes[a].branchNodes, <<run, "p", k>>) > 0
         /\ occurrences(extraNodes[k].predecessors, <<run, "n", a>>) > 0

\* C4 as stated: every branch, call or fallthrough of pass 2 to an address that was
\* never loaded connects its node to a placeholder that starts at the target and is
\* not in the node table, with one 'branches into unassigned memory' diagnostic per
\* such edge at the address of the branching instruction, and getFlowGraph completes.
C4_AsStated ==
  /\ pc # "thrown"
  /\ Returned =>
       \A a \in Branching : \A e \in branchEdges(a) :
         "ASSIGNED" \notin getAttributeAt(memoryAttr, e.target)
           => /\ e.target \notin DOMAIN nodes
              /\ \E k \in placeholdersAt(e.target) : connectedTo(a, e.kind, k)
              /\ diagnosticsAt(branchAddress(a), <<"unassigned", e.target>>)
                   = Cardinality({d \in branchEdges(a) : d.target = e.target})

\* C5: getFlowGraph never throws and never fails an assertion.
C5_NeverThrows == pc # "thrown"

\* getFlowGraph has returned after an ambiguous disassembly, a branch into unassigned
\* memory and a data reference into code that got a label from its block.
C5_Witness ==
  /\ Returned
  /\ \E a \in DOMAIN comments : \E i \in DOMAIN comments[a] : comments[a][i][1] = "ambiguous"
  /\ \E a \in DOMAIN comments : \E i \in DOMAIN comments[a] : comments[a][i][1] = "unassigned"
  /\ \E a \in DOMAIN otherLabels : "CODE" \in getAttributeAt(memoryAttr, a)

\* C6 as stated: after markSubroutines every node with a caller is a subroutine, the
\* nodes of the node table and the nodes only referenced as a callee alike.
C6_AsStated ==
  pc \in {"assignNodeLabels", "done"}
    => /\ \A a \in DOMAIN nodes : nodes[a].callers # <<>> => nodes[a].isSubroutine
       /\ \A k \in DOMAIN extraNodes :
            extraNodes[k].callers # <<>> => extraNodes[k].isSubroutine

\* C7: in every state each key a of the node table maps to a node with start = a.
C7_KeyIsStart == \A a \in DOMAIN nodes : nodes[a].start = a

\* Pass 2 is under way on a node table with a node that a label pair created.
C7_Witness ==
  /\ pc = "fillNodes"
  /\ cursor > 1
  /\ Cardinality(DOMAIN nodes) >= 3
  /\ \E a \in DOMAIN nodes : nodes[a].label # ""

\* The start of the leading node of the block of table node a.
leaderOf(a) == blocks[a][3]

\* The table nodes that are not the leading node of their block and whose label
\* comes from assignNodeLabels (no label pair names them).
LocallyLabelled ==
  {a \in DOMAIN nodes : /\ leaderOf(a) # a
                        /\ nodes[a].label # ""
                        /\ \A i \in DOMAIN labels : labels[i][1] # a}

\* The local names under the block label L.
localNames(L) ==
  {L \o ".LOOP"} \cup UNION {{L \o ".L" \o decimalString(k), L \o ".LOOP" \o decimalString(k)} :
                              k \in 1..Len(nodeOrder)}

\* C8: after assignNodeLabels the label given to an interior node of a block whose
\* leading node has label L is L, '.', and L<k>, LOOP or LOOP<k>; under a leading node
\* without label it is LBL_ and the 4-digit hex of the node's own start.
C8_LocalLabels ==
  Returned =>
    \A a \in LocallyLabelled :
      IF nodes[leaderOf(a)].label # ""
        THEN nodes[a].label \in localNames(nodes[leaderOf(a)].label)
        ELSE nodes[a].label = "LBL_" \o getHexString(a, 4)

\* Blocks with the local names L1, LOOP and LOOP2 and a block without label with an
\* interior LBL_ label.
C8_Witness ==
  /\ Returned
  /\ \E a, b, c, d \in LocallyLabelled :
       /\ nodes[leaderOf(a)].label # ""
       /\ nodes[a].label = nodes[leaderOf(a)].label \o ".L1"
       /\ nodes[leaderOf(b)].label # ""
       /\ nodes[b].label = nodes[leaderOf(b)].label \o ".LOOP"
       /\ nodes[leaderOf(c)].label # ""
       /\ nodes[c].label = nodes[leaderOf(c)].label \o ".LOOP2"
       /\ nodes[leaderOf(d)].label = ""
       /\ nodes[d].label = "LBL_" \o getHexString(d, 4)

(***************************************************************************)
(* Properties of the labels, the rebuild and pass 1.                       *)
(***************************************************************************)
\* assignNodeLabels has run through the node table.
Labelled == Returned \/ (pc = "assignNodeLabels" /\ cursor > Len(nodeOrder))

\* The table nodes that lead their block.
Leading == {a \in DOMAIN nodes : blockAt(blocks, a) = << <<run, "n", a>> >>}

\* The table nodes no label pair names: they have no label before assignNodeLabels.
Unnamed == {a \in DOMAIN nodes : \A i \in DOMAIN labels : labels[i][1] # a}

\* The addresses with all bits outside 00111000b clear.
RstAddresses == {0, 8, 16, 24, 32, 40, 48, 56}

\* Node a has a caller or a predecessor.
Referred(a) == nodes[a].callers # <<>> \/ nodes[a].predecessors # <<>>

\* C11 as stated: after assignNodeLabels a block-leading node without label before
\* has RST_ and 2 hex digits if it is a subroutine at an RST address, else SUB_ and
\* 4 hex digits if it is a subroutine, else LBL_ and 4 hex digits if it has a caller
\* or predecessor; a subroutine is labelled whatever its callers and predecessors.
C11_AsStated ==
  Labelled =>
    \A a \in Leading \cap Unnamed :
      IF nodes[a].isSubroutine /\ a \in RstAddresses
        THEN nodes[a].label = "RST_" \o getHexString(a, 2)
      ELSE IF nodes[a].isSubroutine THEN nodes[a].label = "SUB_" \o getHexString(a, 4)
      ELSE IF Referred(a) THEN nodes[a].label = "LBL_" \o getHexString(a, 4)
      ELSE nodes[a].label = ""

\* C11: after assignNodeLabels a block-leading node without label before and without
\* caller and predecessor has no label, subroutine or not; one with a caller or
\* predecessor has RST_ and 2 hex digits if it is a subroutine at an RST address, else
\* SUB_ and 4 hex digits if it is a subroutine, else LBL_ and 4 hex digits.
C11_GlobalLabel ==
  Labelled =>
    \A a \in Leading \cap Unnamed :
      IF ~Referred(a) THEN nodes[a].label = ""
      ELSE IF nodes[a].isSubroutine /\ a \in RstAddresses
        THEN nodes[a].label = "RST_" \o getHexString(a, 2)
      ELSE IF nodes[a].isSubroutine THEN nodes[a].label = "SUB_" \o getHexString(a, 4)
      ELSE nodes[a].label = "LBL_" \o getHexString(a, 4)

\* Leading nodes with an RST_, a SUB_ and an LBL_ label, and a leading subroutine
\* without caller and predecessor.
C11_Witness ==
  /\ Returned
  /\ \E a, b, c, d \in Leading \cap Unnamed :
       /\ nodes[a].label = "RST_" \o getHexString(a, 2)
       /\ nodes[b].label = "SUB_" \o getHexString(b, 4)
       /\ nodes[c].label = "LBL_" \o getHexString(c, 4)
       /\ nodes[d].isSubroutine /\ ~Referred(d)

\* C12: after getFlowGraph every table node without callers and predecessors leads
\* its own block, and has no label unless a label pair names it.
C12_Unreferred ==
  Returned =>
    \A a \in DOMAIN nodes :
      ~Referred(a) => /\ a \in Leading
                      /\ a \in Unnamed => nodes[a].label = ""

\* Two table nodes without callers and predecessors, the second right behind the
\* first, one of them a subroutine.
C12_Witness ==
  /\ Returned
  /\ \E a, b \in Unnamed :
       /\ ~Referred(a) /\ ~Referred(b)
       /\ b = a + nodes[a].length
       /\ nodes[a].isSubroutine

\* disassembleNodes has put the label texts into the instructions of the graph.
Disassembled == Returned /\ valueNames # <<>>

\* The label of address a by priority: the label funcGetLabel knows, the label of
\* the table node at a, the otherLabels entry, the formatted hex address.
Resolved(a) ==
  IF a \in DOMAIN funcGetLabel /\ funcGetLabel[a] # "" THEN funcGetLabel[a]
  ELSE IF a \in DOMAIN nodes /\ nodes[a].label # "" THEN nodes[a].label
  ELSE IF a \in DOMAIN otherLabels /\ otherLabels[a] # "" THEN otherLabels[a]
  ELSE "$" \o getHexString(a, 4)

\* Label L as written inside the block with label B: the local dotted suffix.
Local(L, B) ==
  IF B # "" /\ Len(L) > Len(B) /\ SubSeq(L, 1, Len(B) + 1) = B \o "."
    THEN SubSeq(L, Len(B) + 1, Len(L)) ELSE L

\* The start of the instruction that address a lies in (no instruction is longer
\* than 4 bytes), a itself outside code.
InstructionStart(a) ==
  IF "CODE" \notin getAttributeAt(memoryAttr, a) THEN a
  ELSE CHOOSE s \in (a - 3) .. a :
         /\ "CODE_FIRST" \in getAttributeAt(memoryAttr, s)
         /\ \A b \in (s + 1) .. a : "CODE_FIRST" \notin getAttributeAt(memoryAttr, b)

\* The label of the block that table node a lies in.
BlockLabel(a) == nodes[leaderOf(a)].label

\* C13 as stated: the text for a referenced address a is the label by priority of
\* a itself (whole or as local suffix), also when a lies inside an instruction.
C13_AsStated ==
  Disassembled =>
    \A i \in DOMAIN valueNames :
      valueNames[i].valueName
        \in {Resolved(valueNames[i].addr64k),
             Local(Resolved(valueNames[i].addr64k), BlockLabel(valueNames[i].node))}

\* C13: the text for a referenced address a is the label by priority of the start s
\* of the instruction a lies in (a itself outside code), cut to its local suffix
\* inside the block of that label, and followed by +(a - s) when a is not s; a label
\* given for an address inside an instruction is not used.
C13_LabelForAddress ==
  Disassembled =>
    \A i \in DOMAIN valueNames :
      LET a == valueNames[i].addr64k
          s == InstructionStart(a)
      IN valueNames[i].valueName =
           Local(Resolved(s), BlockLabel(valueNames[i].node))
             \o (IF s # a THEN "+" \o decimalString(a - s) ELSE "")

\* Texts from funcGetLabel (over a node label), from a node label, from otherLabels,
\* a hex address, a local suffix, and a reference into an instruction for which a
\* label pair was given.
C13_Witness ==
  /\ Disassembled
  /\ \E i, j, k, l, m, n \in DOMAIN valueNames :
       /\ valueNames[i].addr64k \in DOMAIN funcGetLabel \cap DOMAIN nodes
       /\ valueNames[i].valueName = funcGetLabel[valueNames[i].addr64k]
       /\ nodes[valueNames[i].addr64k].label # ""
       /\ valueNames[j].addr64k \in DOMAIN nodes
       /\ valueNames[j].valueName = nodes[valueNames[j].addr64k].label
       /\ valueNames[k].addr64k \in DOMAIN otherLabels
       /\ valueNames[k].valueName = otherLabels[valueNames[k].addr64k]
       /\ valueNames[l].valueName = "$" \o getHexString(valueNames[l].addr64k, 4)
       /\ valueNames[m].addr64k \in DOMAIN nodes
       /\ valueNames[m].valueName # nodes[valueNames[m].addr64k].label
       /\ valueNames[m].valueName = Local(nodes[valueNames[m].addr64k].label,
                                          BlockLabel(valueNames[m].node))
       /\ InstructionStart(valueNames[n].addr64k) # valueNames[n].addr64k
       /\ valueNames[n].addr64k \in DOMAIN otherLabels

\* The addresses whose block lookup returns a node of an earlier getFlowGraph call.
StaleBlocks == {a \in DOMAIN blocks : blocks[a][1] # run}

\* C14 as stated: after a getFlowGraph call that follows a call with other arguments
\* the block lookup is what partitionBlocks makes of the new graph starting from an
\* empty array, and no address is looked up to a node of the earlier call.
C14_AsStated ==
  (Returned /\ run >= 2 /\ ~SameCall)
    => /\ StaleBlocks = {}
       /\ blocks = partitionBlocks(Graph, EmptyMap)

\* The loaded addresses: those of 0..FFFFh with the ASSIGNED bit.
Assigned(attrs) == {a \in DOMAIN attrs : a < MAX_MEM_SIZE /\ "ASSIGNED" \in attrs[a]}

\* C15: no step of getFlowGraph (nor of disassembleNodes) changes a byte of the
\* memory or the ASSIGNED bit of an address of 0..FFFFh, and the reset at the start
\* of getFlowGraph leaves no other bit than ASSIGNED.
C15_KeepsImage ==
  [][/\ memory' = memory
     /\ Assigned(memoryAttr') = Assigned(memoryAttr)
     /\ run' # run => \A a \in DOMAIN memoryAttr' : memoryAttr'[a] = {"ASSIGNED"}]_vars

\* A second getFlowGraph call has returned, with analysed code in loaded memory and
\* analysed bytes in memory that was never loaded.
C15_Witness ==
  /\ Returned
  /\ run >= 2
  /\ \E a \in Assigned(memoryAttr) : "CODE_FIRST" \in memoryAttr[a]
  /\ \E a \in DOMAIN memoryAttr :
       /\ a < MAX_MEM_SIZE
       /\ a \notin Assigned(memoryAttr)
       /\ "FLOW_ANALYZED" \in memoryAttr[a]

(***************************************************************************)
(* Properties of pass 1 (createNodes).                                     *)
(***************************************************************************)
\* createNodes has returned.
AfterPass1 == run >= 1 /\ pc \notin {"idle", "createNodes", "hung"}

\* The addresses where pass 1 began decoding an instruction.
DecodedAt == {walked[i].address : i \in DOMAIN walked}

\* The bytes of the address space behind the first of the instruction of decode e.
Interior(e) ==
  {b \in (e.address + 1) .. (e.address + e.opcode.length - 1) : b < MAX_MEM_SIZE}

\* The decode e found a byte of its instruction analysed before, and said so.
SaidAmbiguous(e) ==
  \E x \in Interior(e) : diagnosticsAt(e.address, ambiguous(x)) > 0

\* C16 as stated: after pass 1 CODE_FIRST is set only where pass 1 began decoding an
\* instruction, and every other byte of each decoded instruction has FLOW_ANALYZED and
\* CODE but not CODE_FIRST.
C16_AsStated ==
  AfterPass1 =>
    /\ codeFirsts(memoryAttr) \subseteq DecodedAt
    /\ \A i \in DOMAIN walked : \A b \in Interior(walked[i]) :
         /\ {"FLOW_ANALYZED", "CODE"} \subseteq getAttributeAt(memoryAttr, b)
         /\ "CODE_FIRST" \notin getAttributeAt(memoryAttr, b)

\* C16: after pass 1 CODE_FIRST is set exactly where pass 1 began decoding an
\* instruction, every byte of each decoded instruction has FLOW_ANALYZED and CODE, and
\* a byte behind the first of a decoded instruction has CODE_FIRST only when that
\* instruction was decoded over bytes analysed before, with an ambiguous-disassembly
\* diagnostic at its address.
C16_Attributes ==
  AfterPass1 =>
    /\ codeFirsts(memoryAttr) = DecodedAt
    /\ \A i \in DOMAIN walked :
         /\ \A b \in Interior(walked[i]) \cup {walked[i].address} :
              {"FLOW_ANALYZED", "CODE"} \subseteq getAttributeAt(memoryAttr, b)
         /\ (\E b \in Interior(walked[i]) : "CODE_FIRST" \in getAttributeAt(memoryAttr, b))
              => SaidAmbiguous(walked[i])

\* Pass 1 has decoded an instruction over the start of another one.
C16_Witness ==
  /\ AfterPass1
  /\ \E i, j \in DOMAIN walked :
       /\ walked[j].address \in Interior(walked[i])
       /\ SaidAmbiguous(walked[i])

\* createNodes has just returned.
CreateNodesReturned == pc = "createNodesForLabels" /\ cursor = 1

\* The addresses of the address space that were loaded.
Loaded(a) == "ASSIGNED" \in getAttributeAt(memoryAttr, a)

\* C17 as stated: after createNodes every key of the node table and every address
\* marked FLOW_ANALYZED or CODE is ASSIGNED, and no diagnostic is recorded at an
\* address that is not ASSIGNED.
C17_AsStated ==
  CreateNodesReturned =>
    /\ \A a \in DOMAIN nodes : Loaded(a)
    /\ \A a \in DOMAIN memoryAttr :
         (a < MAX_MEM_SIZE /\ memoryAttr[a] \cap {"FLOW_ANALYZED", "CODE"} # {}) => Loaded(a)
    /\ \A a \in DOMAIN comments : comments[a] # <<>> => Loaded(a)

\* C18 as stated: getFlowGraph terminates for every memory image, entry-address list,
\* label list and skip table with positive skip lengths: no loop of it, the repeated
\* application of skip lengths to a fallthrough address in pass 1 included, goes on
\* for ever.
C18_AsStated ==
  (\A a \in DOMAIN skipAddrs64k : skipAddrs64k[a] > 0) => pc # "hung"

\* The decodes of the createNodeForAddress call that returned last.
LastWalk ==
  {i \in DOMAIN walked : allBranchAddresses # <<>> /\ walked[i].entry = allBranchAddresses[1]}

\* Decode i + 1 is of the same call as decode i.
SameWalk(i) == i < Len(walked) /\ walked[i + 1].entry = walked[i].entry

\* The branch addresses that were queued after decode i and before the next decode.
Enqueued(i) ==
  SubSeq(allBranchAddresses, walked[i].queued + 1,
         IF SameWalk(i) THEN walked[i + 1].queued ELSE Len(allBranchAddresses))

\* The walk went on behind decode i: the next decode is not the first of a node.
WentOn(i) == SameWalk(i) /\ ~walked[i + 1].first

\* The address behind the instruction of decode e.
Behind(e) == e.address + e.opcode.length

\* The flags of the opcode of decode e.
Branches(e) == "BRANCH_ADDRESS" \in e.opcode.flags
Stops(e) == "STOP" \in e.opcode.flags
ReturnsConditionally(e) == {"RET", "CONDITIONAL"} \subseteq e.opcode.flags

\* The branch addresses queued for a branch instruction: the fallthrough behind the
\* skips unless the instruction stops, then the target.
BranchPushes(e) ==
  (IF Stops(e) THEN <<>> ELSE <<skippedAddress(skipAddrs64k, Behind(e))>>) \o <<e.opcode.value>>

\* C19 as stated: behind an instruction with BRANCH_ADDRESS the walk stops, with the
\* fallthrough (unless STOP) and the target queued; behind a conditional RET the walk
\* stops with the fallthrough queued; behind an unconditional stop the walk stops and
\* nothing is queued.
C19_AsStated ==
  pc # "hung" =>
    \A i \in LastWalk :
      /\ ~WentOn(i)
           \/ ~(Branches(walked[i]) \/ Stops(walked[i]) \/ ReturnsConditionally(walked[i]))
      /\ Branches(walked[i]) => Enqueued(i) = BranchPushes(walked[i])
      /\ (~Branches(walked[i]) /\ ReturnsConditionally(walked[i]))
           => Enqueued(i) = <<Behind(walked[i])>>
      /\ (~Branches(walked[i]) /\ ~ReturnsConditionally(walked[i]) /\ Stops(walked[i]))
           => Enqueued(i) = <<>>

\* What pass 1 queues behind decode e.
WalkPushes(e) ==
  IF e.flowAddr # <<>> THEN <<>>
  ELSE IF Branches(e) THEN BranchPushes(e)
  ELSE IF Behind(e) > 65535 THEN <<>>
  ELSE IF ReturnsConditionally(e) THEN <<Behind(e)>>
  ELSE <<>>

\* C19: a decode over bytes analysed before stops the walk and queues nothing.
\* Otherwise, behind an instruction with BRANCH_ADDRESS the walk stops, with the
\* fallthrough behind the skips (unless STOP) and then the target queued; behind any
\* other instruction that ends at FFFFh the walk stops and nothing is queued; behind a
\* conditional RET the walk stops with the fallthrough queued; behind an unconditional
\* stop the walk stops and nothing is queued; behind every other instruction nothing
\* is queued and the walk goes on at most to the next address.  So a decode at the
\* address behind an unconditional stop is the first of a node taken from the queue.
C19_WalkRule ==
  pc # "hung" =>
    \A i \in LastWalk :
      /\ Enqueued(i) = WalkPushes(walked[i])
      /\ WentOn(i) =>
           /\ walked[i].flowAddr = <<>>
           /\ ~(Branches(walked[i]) \/ Stops(walked[i]) \/ ReturnsConditionally(walked[i]))
           /\ walked[i + 1].address = Behind(walked[i])
           /\ Behind(walked[i]) <= 65535

\* A walk with a conditional branch, a jump, a conditional RET, a RET with a decode
\* behind it, and a branch decoded over bytes analysed before.
C19_Witness ==
  /\ pc = "createNodes"
  /\ \E i, j, k, l, m, n \in LastWalk :
       /\ Branches(walked[i]) /\ ~Stops(walked[i]) /\ Len(Enqueued(i)) = 2
       /\ Branches(walked[j]) /\ Stops(walked[j]) /\ Len(Enqueued(j)) = 1
       /\ ReturnsConditionally(walked[k]) /\ Len(Enqueued(k)) = 1
       /\ ~Branches(walked[l]) /\ Stops(walked[l]) /\ walked[m].address = Behind(walked[l])
       /\ Branches(walked[n]) /\ walked[n].flowAddr # <<>> /\ Enqueued(n) = <<>>

(***************************************************************************)
(* Properties of pass 1b (createNodesForLabels).                           *)
(***************************************************************************)
\* createNodesForLabels has just returned.
CreateNodesForLabelsReturned == pc = "fillNodes" /\ cursor = 1

\* The label pairs have pairwise distinct addresses.
DistinctLabelAddresses ==
  \A i, j \in DOMAIN labels : labels[i][1] = labels[j][1] => i = j

\* The address a is the start of an instruction pass 1 decoded.
CodeFirst(a) == "CODE_FIRST" \in getAttributeAt(memoryAttr, a)

\* C20: for label pairs with pairwise distinct addresses, after createNodesForLabels
\* each pair (a, l) with CODE_FIRST at a is the label of the node table entry at a and
\* not in otherLabels, each pair without CODE_FIRST at a is otherLabels[a] = l and
\* there is no node at a, otherLabels holds nothing else, and every key of the node
\* table has CODE_FIRST.
C20_LabelsPartition ==
  (CreateNodesForLabelsReturned /\ DistinctLabelAddresses) =>
    /\ \A i \in DOMAIN labels :
         IF CodeFirst(labels[i][1])
           THEN /\ labels[i][1] \in DOMAIN nodes
                /\ nodes[labels[i][1]].label = labels[i][2]
                /\ labels[i][1] \notin DOMAIN otherLabels
           ELSE /\ labels[i][1] \in DOMAIN otherLabels
                /\ otherLabels[labels[i][1]] = labels[i][2]
                /\ labels[i][1] \notin DOMAIN nodes
    /\ DOMAIN otherLabels \subseteq {labels[i][1] : i \in DOMAIN labels}
    /\ \A a \in DOMAIN nodes : CodeFirst(a)

\* Pass 1b has labelled a node of pass 1, created a node at an instruction that pass 1
\* decoded in the middle of a walk, and stored a pair without CODE_FIRST in otherLabels.
C20_Witness ==
  /\ CreateNodesForLabelsReturned
  /\ DistinctLabelAddresses
  /\ \E i, j, k \in DOMAIN labels :
       /\ CodeFirst(labels[i][1])
       /\ nodeOrder[1] # labels[i][1] /\ nodeOrder[Len(nodeOrder)] # labels[i][1]
       /\ nodes[labels[i][1]].label = labels[i][2]
       /\ nodeOrder[Len(nodeOrder)] = labels[j][1]
       /\ \E d \in DOMAIN walked : walked[d].address = labels[j][1] /\ ~walked[d].first
       /\ ~CodeFirst(labels[k][1])
       /\ otherLabels[labels[k][1]] = labels[k][2]

(***************************************************************************)
(* Properties of pass 2 (fillNodes) and of markSubroutines.                *)
(***************************************************************************)
\* fillNodes has returned.
AfterPass2 ==
  /\ run >= 1
  /\ \/ pc \in {"assignNodeLabels", "done"}
     \/ pc = "fillNodes" /\ cursor > Len(nodeOrder)

\* The nodes of the analysis: the node table and the placeholders.
AllNodes ==
  {<<run, "n", a>> : a \in DOMAIN nodes} \cup {<<run, "p", k>> : k \in DOMAIN extraNodes}

\* The last instruction of a node.
LastInstruction(node) == node.instructions[Len(node.instructions)]

\* C21: after pass 2, for all nodes m and n (table nodes and placeholders), n occurs in
\* m.branchNodes as often as m occurs in n.predecessors, and m.callee is n if and only
\* if m occurs in n.callers; every node has at most one callee and at most two
\* branchNodes, and a node whose stop flag is set has no branchNode but the target of
\* the jump it ends in.
C21_EdgeConsistency ==
  AfterPass2 =>
    /\ \A m, n \in AllNodes :
         /\ occurrences(nodeOf(Graph, m).branchNodes, n)
              = occurrences(nodeOf(Graph, n).predecessors, m)
         /\ nodeOf(Graph, m).callee = <<n>> <=> occurrences(nodeOf(Graph, n).callers, m) > 0
    /\ \A m \in AllNodes :
         /\ Len(nodeOf(Graph, m).callee) <= 1
         /\ Len(nodeOf(Graph, m).branchNodes) <= 2
         /\ \A i \in DOMAIN nodeOf(Graph, m).callee : nodeOf(Graph, m).callee[i] \in AllNodes
         /\ \A i \in DOMAIN nodeOf(Graph, m).branchNodes :
              nodeOf(Graph, m).branchNodes[i] \in AllNodes
         /\ nodeOf(Graph, m).stop =>
              \/ nodeOf(Graph, m).branchNodes = <<>>
              \/ /\ Len(nodeOf(Graph, m).branchNodes) = 1
                 /\ "BRANCH_ADDRESS" \in LastInstruction(nodeOf(Graph, m)).flags
                 /\ nodeOf(Graph, nodeOf(Graph, m).branchNodes[1]).start
                      = LastInstruction(nodeOf(Graph, m)).value

\* Pass 2 has left a node with a callee and a fallthrough, a node with two
\* branchNodes, a placeholder with a predecessor, and a node that stops in a jump.
C21_Witness ==
  /\ AfterPass2
  /\ \E m, n \in AllNodes :
       /\ nodeOf(Graph, m).callee # <<>> /\ Len(nodeOf(Graph, m).branchNodes) = 1
       /\ nodeOf(Graph, n).stop /\ Len(nodeOf(Graph, n).branchNodes) = 1
  /\ \E m \in AllNodes : Len(nodeOf(Graph, m).branchNodes) = 2
  /\ \E k \in DOMAIN extraNodes : extraNodes[k].predecessors # <<>>

\* markSubroutines has returned.
AfterMarkSubroutines == run >= 1 /\ pc \in {"assignNodeLabels", "done"}

\* The node has a RET or RET cc among its instructions.
Returns(node) == \E i \in DOMAIN node.instructions : "RET" \in node.instructions[i].flags

\* The table nodes that are reached from table node a over branchNodes edges (a
\* included) and hold a RET or RET cc.
ReturnsBehind(a) ==
  {r \in closure(Graph, {<<run, "n", a>>}, "branchNodes") :
     r[2] = "n" /\ Returns(nodes[r[3]])}

\* C22: after markSubroutines every table node from which a node with a RET or RET cc
\* is reached over zero or more branchNodes edges (call edges are not followed) is a
\* subroutine node.
C22_Propagation ==
  AfterMarkSubroutines =>
    \A a \in DOMAIN nodes : ReturnsBehind(a) # {} => nodes[a].isSubroutine

\* A subroutine node without callers and without RET, whose branchNodes have no RET
\* either: it is marked for a RET two or more edges away.
C22_Witness ==
  /\ AfterMarkSubroutines
  /\ \E a \in DOMAIN nodes :
       /\ nodes[a].isSubroutine
       /\ nodes[a].callers = <<>>
       /\ ~Returns(nodes[a])
       /\ \A i \in DOMAIN nodes[a].branchNodes : ~Returns(nodeOf(Graph, nodes[a].branchNodes[i]))
       /\ ReturnsBehind(a) # {}

(***************************************************************************)
(* Properties of partitionBlocks.                                          *)
(***************************************************************************)
\* The starts of the table nodes in ascending order.
SortedStarts == sortAscending(nodeOrder)

\* Table node b follows table node a without a gap.
Contiguous(a, b) == nodes[b].start = nodes[a].start + nodes[a].length

\* Table node b is reached from table node a over branchNodes edges.
InBranches(a, b) == <<run, "n", b>> \in closure(Graph, {<<run, "n", a>>}, "branchNodes")

\* The leading node of the block of the node behind prev, whose block leader leads.
LeaderBehind(prev, leader, a) ==
  IF nodes[a].callers # <<>> \/ ~Contiguous(prev, a) \/ ~InBranches(leader, a)
    THEN a ELSE leader

RECURSIVE Leader(_)
\* The leading node of the block of the i-th table node in ascending order.
Leader(i) ==
  IF i = 1 THEN SortedStarts[1]
  ELSE LeaderBehind(SortedStarts[i - 1], Leader(i - 1), SortedStarts[i])

\* C23: with the table nodes taken in ascending start order, a node starts a new block
\* if and only if it has callers, or its start differs from the end of the preceding
\* node, or it is not in the branch closure of the leading node of the current block;
\* afterwards getBlockNode(n.start) is the leading node of the block of n for every
\* table node n, the leading node maps to itself, and its start is <= n.start.
C23_Blocks ==
  AfterMarkSubroutines =>
    \A i \in DOMAIN SortedStarts :
      /\ blockAt(blocks, SortedStarts[i]) = << <<run, "n", Leader(i)>> >>
      /\ blockAt(blocks, Leader(i)) = << <<run, "n", Leader(i)>> >>
      /\ Leader(i) <= SortedStarts[i]

\* A block of three nodes, a node that starts a block for its callers alone, and a
\* node that starts a block although it follows without a gap and has no callers.
C23_Witness ==
  /\ AfterMarkSubroutines
  /\ \E i \in DOMAIN SortedStarts : i > 2 /\ Leader(i) = Leader(i - 2)
  /\ \E i \in DOMAIN SortedStarts :
       /\ i > 1
       /\ Contiguous(SortedStarts[i - 1], SortedStarts[i])
       /\ InBranches(Leader(i - 1), SortedStarts[i])
       /\ Leader(i) = SortedStarts[i]
  /\ \E i \in DOMAIN SortedStarts :
       /\ i > 1
       /\ Contiguous(SortedStarts[i - 1], SortedStarts[i])
       /\ nodes[SortedStarts[i]].callers = <<>>
       /\ Leader(i) = SortedStarts[i]

(***************************************************************************)
(* Properties of the local reduction of getLabelForAddress.                *)
(***************************************************************************)
\* The rendered references to a table node whose label is the one rendered (funcGetLabel
\* knows no label for the address).
NodeReferences ==
  {i \in DOMAIN valueNames :
     /\ valueNames[i].addr64k \in DOMAIN nodes
     /\ nodes[valueNames[i].addr64k].label # ""
     /\ Resolved(valueNames[i].addr64k) = nodes[valueNames[i].addr64k].label}

\* The referenced node of reference i lies in the block of the referencing node.
SameBlock(i) == leaderOf(valueNames[i].addr64k) = leaderOf(valueNames[i].node)

\* The text begins with a dot.
Dotted(text) == Len(text) > 0 /\ SubSeq(text, 1, 1) = "."

\* C24 as stated: a reference to a labelled node in the block of the referencing node
\* is rendered as a local dotted suffix, a reference to a node of another block as the
\* full label.
C24_AsStated ==
  Disassembled =>
    \A i \in NodeReferences :
      IF SameBlock(i)
        THEN /\ Dotted(valueNames[i].valueName)
             /\ valueNames[i].valueName # nodes[valueNames[i].addr64k].label
        ELSE valueNames[i].valueName = nodes[valueNames[i].addr64k].label

\* Label L begins with label B and a dot.
Under(L, B) == B # "" /\ Len(L) > Len(B) /\ SubSeq(L, 1, Len(B) + 1) = B \o "."

\* The label of node a was made by assignNodeLabels: no label pair names a.
Synthesized(a) == \A k \in DOMAIN labels : labels[k][1] # a

\* C24: a reference to a labelled node is rendered as the local dotted suffix of its
\* label exactly when the label begins with the label of the block of the referencing
\* node and a dot, whatever block the referenced node lies in, and as the full label
\* otherwise.  For labels made by assignNodeLabels this cuts the label of a node that
\* is not the leading node of the block of the referencing node, when that block has
\* a label, and leaves the label of a leading node whole.
C24_LocalReduction ==
  Disassembled =>
    \A i \in NodeReferences :
      /\ IF Under(nodes[valueNames[i].addr64k].label, BlockLabel(valueNames[i].node))
           THEN /\ Dotted(valueNames[i].valueName)
                /\ BlockLabel(valueNames[i].node) \o valueNames[i].valueName
                     = nodes[valueNames[i].addr64k].label
           ELSE valueNames[i].valueName = nodes[valueNames[i].addr64k].label
      /\ (/\ Synthesized(valueNames[i].addr64k)
          /\ SameBlock(i)
          /\ leaderOf(valueNames[i].addr64k) # valueNames[i].addr64k
          /\ BlockLabel(valueNames[i].node) # "")
           => Dotted(valueNames[i].valueName)
      /\ (/\ Synthesized(valueNames[i].addr64k)
          /\ leaderOf(valueNames[i].addr64k) = valueNames[i].addr64k)
           => valueNames[i].valueName = nodes[valueNames[i].addr64k].label

\* Rendered: a local suffix for a node of the same block, the full label of the leading
\* node of the same block, and a local suffix for a node of another block.
C24_Witness ==
  /\ Disassembled
  /\ \E i, j \in NodeReferences :
       /\ SameBlock(i) /\ Dotted(valueNames[i].valueName)
       /\ SameBlock(j) /\ valueNames[j].valueName = nodes[valueNames[j].addr64k].label
  /\ \E i \in NodeReferences : ~SameBlock(i) /\ Dotted(valueNames[i].valueName)

(***************************************************************************)
(* C27: the depth and the subroutines of getSubroutinesFor.                *)
(***************************************************************************)
\* getSubroutinesFor has returned.
SubroutinesReturned == subroutines # <<>>

\* The start nodes of the call.
StartRefs == {<<run, "n", subroutines[1].startNodes[i]>> : i \in DOMAIN subroutines[1].startNodes}

\* The subroutines that the subroutine starting at ref calls: the callees of the
\* nodes reached from ref over branch edges.
CalledBy(ref) ==
  {c \in AllNodes : \E r \in closure(Graph, {ref}, "branchNodes") :
                      Graph.run = run /\ nodeOf(Graph, r).callee = <<c>>}

RECURSIVE CalledFrom(_)
\* refs and every subroutine transitively called from them.
CalledFrom(refs) ==
  IF UNION {CalledBy(r) : r \in refs} \subseteq refs THEN refs
  ELSE CalledFrom(refs \cup UNION {CalledBy(r) : r \in refs})

\* No subroutine reached from the start nodes calls itself, directly or indirectly.
AcyclicCalls == \A r \in CalledFrom(StartRefs) : r \notin CalledFrom(CalledBy(r))

RECURSIVE NestedCalls(_)
\* The length of the longest chain of nested calls that begins in the subroutine at ref.
NestedCalls(ref) ==
  IF CalledBy(ref) = {} THEN 0
  ELSE 1 + (CHOOSE d \in {NestedCalls(c) : c \in CalledBy(ref)} :
              \A c \in CalledBy(ref) : NestedCalls(c) <= d)

\* The calling depth of the start nodes.
CallingDepth ==
  IF StartRefs = {} THEN 0
  ELSE CHOOSE d \in {NestedCalls(r) : r \in StartRefs} : \A r \in StartRefs : NestedCalls(r) <= d

\* C27: getSubroutinesFor(startNodes) returns as depth the calling depth of the start
\* nodes, the length of the longest chain of nested calls reachable from a start
\* node (0 when nothing is called), whatever the order in which the callees are
\* visited when the call graph is acyclic, and nodeSubs holds exactly the start nodes
\* and every subroutine transitively called from them.
C27_AsStated ==
  (SubroutinesReturned /\ AcyclicCalls) =>
    /\ subroutines[1].result.maxDepth = CallingDepth
    /\ subroutines[1].result.allSubs = CalledFrom(StartRefs)

(***************************************************************************)
(* C28: the keys of the node table.                                        *)
(***************************************************************************)
\* The node at a was made by pass 1 from its work-list: a is neither an entry address
\* nor the address of a label.
MadeByWalk(a) ==
  /\ \A i \in DOMAIN addresses : addresses[i] # a
  /\ \A i \in DOMAIN labels : labels[i][1] # a

\* The node at a was made by createNodesForLabels, at an instruction that pass 1
\* decoded behind the first instruction of a node.
SeededByLabel(a) ==
  /\ \E i \in DOMAIN labels : labels[i][1] = a
  /\ \E d \in DOMAIN walked : walked[d].address = a /\ ~walked[d].first
  /\ \A d \in DOMAIN walked : walked[d].address = a => ~walked[d].first

\* C28: after getFlowGraph every key of the node table lies in 0..0xFFFF and has
\* CODE_FIRST set: table nodes start only on instruction boundaries found by pass 1,
\* whether the work-list of pass 1 made them or a label seeded them.
C28_Keys ==
  Returned =>
    \A a \in DOMAIN nodes :
      /\ a \in 0..(MAX_MEM_SIZE - 1)
      /\ CodeFirst(a)

\* getFlowGraph has returned a table with a node that the work-list made at a branch
\* target and a node that a label seeded.
C28_Witness ==
  /\ Returned
  /\ \E a, b \in DOMAIN nodes : MadeByWalk(a) /\ SeededByLabel(b)

(***************************************************************************)
(* C29: the instructions of pass 2 and the marks of pass 1.                *)
(***************************************************************************)
\* The address of instruction k of table node a.
InstructionAddress(a, k) == a + lengthsBefore(nodes[a].instructions, k - 1)

\* The instructions that pass 2 stored in table nodes, skip pseudo-instructions left out.
StoredInstructions ==
  UNION {{<<a, k>> : k \in {j \in DOMAIN nodes[a].instructions :
                               nodes[a].instructions[j].cls # "SkipPseudoOpcode"}} :
           a \in DOMAIN nodes}

\* C29 as stated: every instruction, skip pseudo-instructions left out, that pass 2
\* stored in a table node starts at an address that pass 1 marked CODE_FIRST.
C29_AsStated ==
  AfterPass2 => \A s \in StoredInstructions : CodeFirst(InstructionAddress(s[1], s[2]))

(***************************************************************************)
(* C30: the labels of pass 1b and the labels made afterwards.              *)
(***************************************************************************)
\* The addresses of the label pairs.
LabelAddresses == {labels[i][1] : i \in DOMAIN labels}

\* The label that pass 1b left for address a: the one of the last pair for a.
SuppliedLabel(a) ==
  labels[CHOOSE i \in DOMAIN labels :
           labels[i][1] = a /\ \A j \in DOMAIN labels : j > i => labels[j][1] # a][2]

\* An instruction of a table node refers to the data at a.
DataReferenced(a) ==
  \E n \in DOMAIN nodes : \E k \in DOMAIN nodes[n].dataReferences : nodes[n].dataReferences[k] = a

\* C30: labels supplied with the call are never replaced by made ones.  After
\* getFlowGraph a non-empty label that pass 1b put on a node is the label of that node
\* and one that pass 1b put into otherLabels is that entry of otherLabels, and each
\* entry of otherLabels that assignOpcodeReferenceLabels added is at a data reference
\* for which funcGetLabel and the node table have no label (and otherLabels had none).
C30_KeepsSupplied ==
  Returned =>
    /\ \A a \in LabelAddresses :
         SuppliedLabel(a) # "" =>
           IF CodeFirst(a)
             THEN a \in DOMAIN nodes /\ nodes[a].label = SuppliedLabel(a)
             ELSE a \in DOMAIN otherLabels /\ otherLabels[a] = SuppliedLabel(a)
    /\ \A a \in DOMAIN otherLabels \ LabelAddresses :
         /\ DataReferenced(a)
         /\ a \notin DOMAIN funcGetLabel \/ funcGetLabel[a] = ""
         /\ a \notin DOMAIN nodes \/ nodes[a].label = ""

\* getFlowGraph has returned with a supplied label on a subroutine that is called, a
\* supplied label on a node that a loop jumps to, a supplied label in otherLabels at a
\* data reference, and an entry of otherLabels made for another data reference.
C30_Witness ==
  /\ Returned
  /\ \E a, b \in LabelAddresses \cap DOMAIN nodes :
       /\ nodes[a].callers # <<>> /\ nodes[a].label = SuppliedLabel(a)
       /\ nodes[b].callers = <<>> /\ nodes[b].predecessors # <<>>
       /\ nodes[b].label = SuppliedLabel(b)
  /\ \E a \in LabelAddresses \cap DOMAIN otherLabels :
       DataReferenced(a) /\ otherLabels[a] = SuppliedLabel(a)
  /\ \E a \in DOMAIN otherLabels \ LabelAddresses : DataReferenced(a)

(***************************************************************************)
(* The decoder on its own: Opcode.getOpcodeAt called on one memory image,  *)
(* at any of its addresses, in any order.                                  *)
(***************************************************************************)
\* The length of the decoded images, and the number of decodes.
DecodeImgLen == 2
MaxDecodes == 3

\* RST 0 .. RST 38h.
RstBytes == {199, 207, 215, 223, 231, 239, 247, 255}

\* The bytes of the decoded images: the RST bytes, NOP, JR e, LD (HL),n / LD (IX+d),n,
\* LD A,(nn) and the prefixes CB, DD and FD.
DecodeBytes == RstBytes \cup {0, 24, 54, 58, 203, 221, 253}

\* The doubly-prefixed images: DD or FD, CB, a displacement, the opcode byte (RLC,
\* BIT 0, SET 7) and a byte behind it.
IndexBitImages ==
  {<<p, 203, d, op, 77>> : p \in {221, 253}, d \in {0, 127, 128, 255}, op \in {6, 70, 255}}

DecodeImages == [1..DecodeImgLen -> DecodeBytes] \cup IndexBitImages

\* The images end at the top of the address space (operands are read modulo 64K).
DecodeOrigin(bytes) == MAX_MEM_SIZE - Len(bytes)
DecodeAddresses == DOMAIN memory

InitDecode ==
  \E bytes \in DecodeImages :
    /\ memory = setMemoryBytes(EmptyMap, DecodeOrigin(bytes), bytes)
    /\ memoryAttr = setMemoryAttr(EmptyMap, DecodeOrigin(bytes), bytes)
    /\ addresses = <<>>
    /\ labels = <<>>
    /\ skipAddrs64k = EmptyMap
    /\ funcGetLabel = EmptyMap
    /\ nodes = EmptyMap
    /\ nodeOrder = <<>>
    /\ extraNodes = <<>>
    /\ blocks = EmptyMap
    /\ otherLabels = EmptyMap
    /\ comments = EmptyMap
    /\ pc = "idle"
    /\ cursor = 1
    /\ run = 0
    /\ history = <<>>
    /\ rejected = <<>>
    /\ walked = <<>>
    /\ allBranchAddresses = <<>>
    /\ objs = NoObjs
    /\ decoded = <<>>
    /\ opcode = <<>>
    /\ valueNames = <<>>
    /\ subroutines = <<>>

\* Opcode.getOpcodeAt(memory, address): the table object is written and returned.
DecodeAt ==
  \E address \in DecodeAddresses :
    /\ Len(decoded) < MaxDecodes
    /\ opcode' = getOpcodeAtIn(objs, memory, address)
    /\ objs' = objsAfter(objs, memory, address)
    /\ decoded' = Append(decoded, [address |-> address, opcode |-> opcode'])
    /\ UNCHANGED <<inputVars, memoryAttr, nodes, nodeOrder, extraNodes, blocks, otherLabels,
                   comments, pc, cursor, run, history, rejected, walkVars,
                   renderVars>>

NextDecode == DecodeAt

SpecDecode == InitDecode /\ [][NextDecode]_vars

\* What a decode returns does not depend on the decodes before it: the value field
\* is either rewritten from memory or never written after construction.
DecodeKeepsConstructed ==
  \A i \in 1..Len(decoded) : decoded[i].opcode = getOpcodeAt(memory, decoded[i].address)

\* What a caller reads from a decoded opcode.
opcodeView(o) == [name |-> o.name, length |-> o.length, flags |-> o.flags, value |-> o.value]

\* C9: two decodes of the same address on unchanged memory return the same mnemonic
\* template, length, flags and value, whatever was decoded in between.
C9_DecodeDeterministic ==
  \A i, j \in 1..Len(decoded) :
    decoded[i].address = decoded[j].address
      => opcodeView(decoded[i].opcode) = opcodeView(decoded[j].opcode)

\* An address decoded twice with, in between, a decode of another address that
\* wrote a different value into the same table object.
C9_Witness ==
  /\ Len(decoded) = 3
  /\ decoded[1].address = decoded[3].address
  /\ decoded[2].address # decoded[1].address
  /\ decoded[2].opcode.code = decoded[1].opcode.code
  /\ decoded[2].opcode.cls = decoded[1].opcode.cls
  /\ decoded[2].opcode.name = decoded[1].opcode.name
  /\ decoded[2].opcode.value # decoded[1].opcode.value

\* C10: an RST byte decodes, at any address and whatever follows it, to the value
\* b & 38h, the flags CALL and BRANCH_ADDRESS and no others, and length 1.
C10_RstDecode ==
  \A i \in 1..Len(decoded) :
    getValueAt(memory, decoded[i].address) \in RstBytes
      => /\ decoded[i].opcode.value = BitAnd(getValueAt(memory, decoded[i].address), 56)
         /\ decoded[i].opcode.flags = {"CALL", "BRANCH_ADDRESS"}
         /\ decoded[i].opcode.length = 1

\* RST 20h (E7) decoded after another RST, followed by a byte that is not 0.
C10_Witness ==
  /\ Len(decoded) >= 2
  /\ decoded[1].opcode.valueType = "CODE_RST"
  /\ decoded[1].opcode.value # 32
  /\ getValueAt(memory, decoded[2].address) = 231
  /\ decoded[2].opcode.value = 32
  /\ getValueAt(memory, decoded[2].address + 1) # 0

\* The decodes at a DD or FD byte that a CB byte follows.
IndexBitDecodes ==
  {i \in 1..Len(decoded) :
     /\ getValueAt(memory, decoded[i].address) \in {221, 253}
     /\ getValueAt(memory, decoded[i].address + 1) = 203}

\* The table entry for the opcode byte op behind the prefix p and CB.
IndexBitEntry(p, op) == IF p = 221 THEN OpcodesDDCB(op + 1) ELSE OpcodesFDCB(op + 1)

\* C25: for bytes p CB d op at address A with p DD or FD, the decode at A has length 4,
\* is the entry for the byte op at A + 3, and its value is the byte d at A + 2 read as
\* two's complement (-128..127), not a byte behind op.
C25_IndexBit ==
  \A i \in IndexBitDecodes :
    /\ decoded[i].opcode.length = 4
    /\ decoded[i].opcode.code = getValueAt(memory, decoded[i].address + 3)
    /\ decoded[i].opcode.name
         = IndexBitEntry(getValueAt(memory, decoded[i].address),
                         getValueAt(memory, decoded[i].address + 3)).name
    /\ decoded[i].opcode.value = SignedByte(getValueAt(memory, decoded[i].address + 2))
    /\ decoded[i].opcode.value \in -128 .. 127

\* FD CB 80 FF decoded after another decode, with a byte behind it that is not the
\* displacement: SET 7,(IY-128),A.
C25_Witness ==
  /\ Len(decoded) >= 2
  /\ \E i \in IndexBitDecodes :
       /\ i > 1
       /\ getValueAt(memory, decoded[i].address) = 253
       /\ decoded[i].opcode.code = 255
       /\ decoded[i].opcode.value = -128
       /\ getValueAt(memory, decoded[i].address + 4) = 77

\* The table object that decode i returned, as <<table, code>>.
ObjectOf(i) ==
  <<tableObjectAt(memory, decoded[i].address, "Opcodes").opcodes, decoded[i].opcode.code>>

\* What the record that decode i returned reads now: the table object itself, with
\* the value field as it stands.  decoded[i].opcode is the record as it read at the
\* return, which is what a clone taken then holds.
Reads(i) == [decoded[i].opcode EXCEPT !.value = objs[ObjectOf(i)]]

\* The last decode that returned the table object of decode i.
LastOf(i) ==
  CHOOSE j \in 1..Len(decoded) :
    /\ ObjectOf(j) = ObjectOf(i)
    /\ \A k \in 1..Len(decoded) : ObjectOf(k) = ObjectOf(i) => k <= j

====
